---------------------------- MODULE Spec2Model ----------------------------
(***************************************************************************)
(* A model of the MiniC front end: the Scanner (src/lexer/scanner.rs), the *)
(* MacroTable (src/preprocessor/macros.rs) and the Preprocessor            *)
(* (src/preprocessor/mod.rs).                                              *)
(*                                                                         *)
(* Text is a sequence of one-character strings.  An Option<T> is a         *)
(* sequence of length 0 (None) or 1 (Some).  A Result is a record with an  *)
(* `ok` field.                                                             *)
(***************************************************************************)
EXTENDS Integers, Sequences, FiniteSets, TLC

VARIABLES
    source,          \* Scanner: the text given to Scanner::new
    scanner,         \* Scanner: the struct's five fields
    tokens,          \* scan_all: the local vector `tokens`
    errors,          \* scan_all: the local vector `errors`
    pc,              \* scan_all: "idle" | "loop" | "done"
    results,         \* caller of next_token: the results returned so far
    peeked,          \* caller of peek_token: Some(result of the last call) since the last next_token
    macros,          \* MacroTable.macros: name -> value
    expansion_stack, \* MacroTable.expansion_stack
    expanded,        \* caller of expand: Some(result of the last expand call)
    pp_source,       \* Preprocessor.source
    preserve,        \* Preprocessor.preserve_line_numbers
    conditionals,    \* Preprocessor.support_conditionals
    pp,              \* process(): its locals and position
    positions        \* caller of Position: the build profile and the values made so far

scan_vars == <<source, scanner, tokens, errors, pc, results, peeked>>
table_vars == <<macros, expansion_stack, expanded>>
pp_vars == <<pp_source, preserve, conditionals, pp>>
vars == <<source, scanner, tokens, errors, pc, results, peeked,
          macros, expansion_stack, expanded, pp_source, preserve, conditionals, pp,
          positions>>

---------------------------------------------------------------------------
(* Characters *)

Digits == {"0", "1", "2", "3", "4", "5", "6", "7", "8", "9"}

Letters ==
    {"a", "b", "c", "d", "e", "f", "g", "h", "i", "j", "k", "l", "m",
     "n", "o", "p", "q", "r", "s", "t", "u", "v", "w", "x", "y", "z",
     "A", "B", "C", "D", "E", "F", "G", "H", "I", "J", "K", "L", "M",
     "N", "O", "P", "Q", "R", "S", "T", "U", "V", "W", "X", "Y", "Z"}

is_whitespace(c) == c \in {" ", "\t", "\n", "\r"}

is_ascii_digit(c) == c \in Digits

is_ascii_alphabetic(c) == c \in Letters

is_ascii_alphanumeric(c) == c \in Letters \cup Digits

\* All sequences over S of length at most n.
SeqsUpTo(S, n) == UNION {[1..k -> S] : k \in 0..n}

---------------------------------------------------------------------------
(* Position *)

Position(l, c) == [line |-> l, column |-> c]

PositionStart == Position(1, 1)

(* usize::MAX.  The fields are usize; the model keeps the widest unsigned  *)
(* range that TLC's 32-bit integers hold, 31 bits.                         *)
USIZE_MAX == 2147483647

(* a + b leaves usize *)
overflows(a, b) == a > USIZE_MAX - b

(* a + b in a build without overflow checks: modulo USIZE_MAX + 1 *)
wrapping_add(a, b) == IF overflows(a, b) THEN a - (USIZE_MAX - b) - 1 ELSE a + b

advance_column(p, by) == [p EXCEPT !.column = wrapping_add(@, by)]

new_line(p) == [line |-> wrapping_add(p.line, 1), column |-> 1]

with_column_offset(p, offset) == [line |-> p.line, column |-> wrapping_add(p.column, offset)]

add(p, rhs) == [line |-> p.line, column |-> wrapping_add(p.column, rhs)]

sub(p, rhs) ==
    LET new_column == IF p.column > rhs THEN p.column - rhs ELSE 1
    IN  [line |-> p.line, column |-> new_column]

is_valid(p) == p.line >= 1 /\ p.column >= 1

---------------------------------------------------------------------------
(* ErrorRecovery *)

ErrorRecoveryNew ==
    [skipped_chars |-> 0, recovered |-> FALSE, last_error_position |-> <<>>]

mark_recovered(r, position) ==
    [r EXCEPT !.recovered = TRUE, !.last_error_position = <<position>>]

skip_char(r) == [r EXCEPT !.skipped_chars = @ + 1]

---------------------------------------------------------------------------
(* Tokens and lexical errors.  `value`/`scale` carry a numeric literal's   *)
(* parsed value (value / 10^scale), `content` a string literal's content   *)
(* or an identifier's name.                                                *)

Token(kind, lexeme, position, value, scale, content) ==
    [ok |-> TRUE, kind |-> kind, lexeme |-> lexeme, position |-> position,
     value |-> value, scale |-> scale, content |-> content]

TokenEof(position) == Token("EndOfFile", <<>>, position, 0, 0, <<>>)

is_eof(r) == r.ok /\ r.kind = "EndOfFile"

\* A LexerError; `lexeme` holds the error's `character` or `lexeme` field.
LexerError(kind, position, lexeme) ==
    [ok |-> FALSE, kind |-> kind, lexeme |-> lexeme, position |-> position,
     value |-> 0, scale |-> 0, content |-> <<>>]

---------------------------------------------------------------------------
(* Scanner *)

ScannerNew(src) ==
    [chars |-> src,
     current_position |-> PositionStart,
     start_position |-> PositionStart,
     current_lexeme |-> <<>>,
     error_recovery |-> ErrorRecoveryNew]

is_at_end(s) == s.chars = <<>>

peek_is(s, c) == s.chars # <<>> /\ Head(s.chars) = c

advance(s) ==
    IF s.chars = <<>> THEN s
    ELSE LET c == Head(s.chars) IN
         [s EXCEPT !.chars = Tail(@),
                   !.current_position =
                       IF c = "\n" THEN new_line(@) ELSE advance_column(@, 1),
                   !.current_lexeme =
                       IF is_whitespace(c) THEN @ ELSE Append(@, c)]

\* matches(expected) that leaves the matched character in the input.
matches_peek(s, expected) == [ok |-> peek_is(s, expected), s |-> s]

\* matches(expected): [ok |-> whether it matched, s |-> the scanner afterwards]
matches(s, expected) ==
    IF peek_is(s, expected) THEN [ok |-> TRUE, s |-> advance(s)]
    ELSE [ok |-> FALSE, s |-> s]

\* self.matches(a) && self.matches(b), short-circuit
matches_both(s, a, b) ==
    LET m1 == matches(s, a) IN
    IF m1.ok THEN matches(m1.s, b) ELSE m1

start_token(s) ==
    [s EXCEPT !.start_position = s.current_position,
              !.current_lexeme = <<>>,
              !.error_recovery = ErrorRecoveryNew]

\* make_token that leaves the lexeme out.
make_token_blank(s, kind, value, scale, content) ==
    Token(kind, <<>>, s.start_position, value, scale, content)

make_token(s, kind, value, scale, content) ==
    Token(kind, s.current_lexeme, s.start_position, value, scale, content)

advance_whitespace(s) ==
    IF s.chars = <<>> THEN s
    ELSE LET c == Head(s.chars)
             rest == Tail(s.chars)
         IN  CASE c = "\n" ->
                    [s EXCEPT !.chars = rest, !.current_position = new_line(@)]
               [] c = "\r" ->
                    IF rest # <<>> /\ Head(rest) = "\n"
                    THEN [s EXCEPT !.chars = Tail(rest),
                                   !.current_position = new_line(@)]
                    ELSE [s EXCEPT !.chars = rest,
                                   !.current_position = advance_column(@, 1)]
               [] OTHER ->
                    [s EXCEPT !.chars = rest,
                              !.current_position = advance_column(@, 1)]

RECURSIVE skip_whitespace_loop(_)
skip_whitespace_loop(s) ==
    IF s.chars # <<>> /\ is_whitespace(Head(s.chars))
    THEN skip_whitespace_loop(advance_whitespace(s))
    ELSE s

\* skip_whitespace counting the end of the input as one more column.
skip_whitespace_counts_end(s) ==
    LET t == skip_whitespace_loop(s)
        u == IF t.chars = <<>>
             THEN [t EXCEPT !.current_position = advance_column(@, 1)]
             ELSE t
    IN  [u EXCEPT !.current_lexeme = <<>>, !.start_position = u.current_position]

skip_whitespace(s) ==
    LET t == skip_whitespace_loop(s) IN
    [t EXCEPT !.current_lexeme = <<>>, !.start_position = t.current_position]

RECURSIVE line_comment_loop(_)
line_comment_loop(s) ==
    IF s.chars # <<>> /\ Head(s.chars) # "\n"
    THEN line_comment_loop(advance(s))
    ELSE s

RECURSIVE block_comment_loop(_, _)
block_comment_loop(s, depth) ==
    IF depth > 0 /\ ~is_at_end(s)
    THEN LET open == matches_both(s, "/", "*") IN
         IF open.ok THEN block_comment_loop(open.s, depth + 1)
         ELSE LET close == matches_both(open.s, "*", "/") IN
              IF close.ok THEN block_comment_loop(close.s, depth - 1)
              ELSE block_comment_loop(advance(close.s), depth)
    ELSE [s |-> s, depth |-> depth]

\* skip_comments(): [s |-> the scanner afterwards, err |-> None | Some(error)]
skip_comments(s) ==
    LET line == matches_both(s, "/", "/") IN
    IF line.ok THEN [s |-> line_comment_loop(line.s), err |-> <<>>]
    ELSE LET block == matches_both(line.s, "/", "*") IN
         IF block.ok
         THEN LET b == block_comment_loop(block.s, 1) IN
              IF b.depth > 0
              THEN [s |-> b.s,
                    err |-> <<LexerError("UnterminatedComment",
                                         b.s.start_position, <<>>)>>]
              ELSE [s |-> b.s, err |-> <<>>]
         ELSE [s |-> [block.s EXCEPT !.current_lexeme = <<>>,
                                     !.current_position = block.s.start_position],
               err |-> <<>>]


---------------------------------------------------------------------------
(* Literal parsing: str::parse::<i32>() and str::parse::<f64>() on the     *)
(* lexemes scan_number builds (an optional '-', digits, an optional        *)
(* '.' digits).                                                            *)

I32_MAX == 2147483647

I32_MIN == -2147483647 - 1

DigitVal(c) ==
    CASE c = "0" -> 0 [] c = "1" -> 1 [] c = "2" -> 2 [] c = "3" -> 3
      [] c = "4" -> 4 [] c = "5" -> 5 [] c = "6" -> 6 [] c = "7" -> 7
      [] c = "8" -> 8 [] c = "9" -> 9

\* The accumulation with the negative range cut at -2147483647.
RECURSIVE parse_digits_symmetric(_, _, _)
parse_digits_symmetric(digits, acc, negative) ==
    IF digits = <<>> THEN <<acc>>
    ELSE LET c == Head(digits) IN
         IF ~is_ascii_digit(c) THEN <<>>
         ELSE LET d == DigitVal(c) IN
              IF negative
              THEN IF acc < -214748364 \/ (acc = -214748364 /\ d > 7)
                   THEN <<>>
                   ELSE parse_digits_symmetric(Tail(digits), acc * 10 - d, negative)
              ELSE IF acc > 214748364 \/ (acc = 214748364 /\ d > 7)
                   THEN <<>>
                   ELSE parse_digits_symmetric(Tail(digits), acc * 10 + d, negative)

\* Accumulation with checked_mul/checked_add (positive) or checked_sub
\* (negative): None on overflow or on a character that is no digit.
RECURSIVE parse_digits(_, _, _)
parse_digits(digits, acc, negative) ==
    IF digits = <<>> THEN <<acc>>
    ELSE LET c == Head(digits) IN
         IF ~is_ascii_digit(c) THEN <<>>
         ELSE LET d == DigitVal(c) IN
              IF negative
              THEN IF acc < -214748364 \/ (acc = -214748364 /\ d > 8)
                   THEN <<>>
                   ELSE parse_digits(Tail(digits), acc * 10 - d, negative)
              ELSE IF acc > 214748364 \/ (acc = 214748364 /\ d > 7)
                   THEN <<>>
                   ELSE parse_digits(Tail(digits), acc * 10 + d, negative)

\* parse::<i32>: None (Err) or Some(value)
parse_i32(lexeme) ==
    IF lexeme = <<>> THEN <<>>
    ELSE IF Head(lexeme) \in {"-", "+"}
         THEN IF Tail(lexeme) = <<>> THEN <<>>
              ELSE parse_digits(Tail(lexeme), 0, Head(lexeme) = "-")
         ELSE parse_digits(lexeme, 0, FALSE)

RECURSIVE index_of(_, _, _)
index_of(seq, c, i) ==
    IF i > Len(seq) THEN 0
    ELSE IF seq[i] = c THEN i ELSE index_of(seq, c, i + 1)

RECURSIVE digits_value(_, _)
digits_value(digits, acc) ==
    IF digits = <<>> THEN acc
    ELSE digits_value(Tail(digits), acc * 10 + DigitVal(Head(digits)))

\* parse::<f64> of `[-]digits.digits`, which never fails on this shape:
\* the value is value / 10^scale.
parse_f64(lexeme) ==
    LET negative == lexeme # <<>> /\ Head(lexeme) = "-"
        body == IF negative THEN Tail(lexeme) ELSE lexeme
        dot == index_of(body, ".", 1)
        whole == SubSeq(body, 1, dot - 1)
        frac == SubSeq(body, dot + 1, Len(body))
        m == digits_value(whole \o frac, 0)
    IN  <<[value |-> IF negative THEN 0 - m ELSE m, scale |-> Len(frac)]>>

---------------------------------------------------------------------------
(* Scanner: the literal and identifier scans *)

RECURSIVE scan_string(_)
scan_string(s) ==
    IF s.chars = <<>>
    THEN [s |-> s, res |-> LexerError("UnterminatedString", s.start_position, <<>>)]
    ELSE LET c == Head(s.chars) IN
         CASE c = "\"" ->
                LET t == advance(s)
                    n == Len(t.current_lexeme)
                    content == IF n >= 2 THEN SubSeq(t.current_lexeme, 2, n - 1)
                               ELSE <<>>
                IN  [s |-> t, res |-> make_token(t, "StringLiteral", 0, 0, content)]
           [] c = "\\" ->
                LET t == advance(s) IN
                scan_string(IF t.chars # <<>> THEN advance(t) ELSE t)
           [] c = "\n" ->
                [s |-> s,
                 res |-> LexerError("UnterminatedString", s.start_position, <<>>)]
           [] OTHER -> scan_string(advance(s))

RECURSIVE scan_number_loop(_, _, _)
scan_number_loop(s, is_float, has_digit_after_dot) ==
    IF s.chars = <<>>
    THEN [s |-> s, is_float |-> is_float, has_digit_after_dot |-> has_digit_after_dot]
    ELSE LET c == Head(s.chars) IN
         IF is_ascii_digit(c)
         THEN scan_number_loop(advance(s), is_float, has_digit_after_dot \/ is_float)
         ELSE IF c = "." /\ ~is_float
              THEN scan_number_loop(advance(s), TRUE, has_digit_after_dot)
              ELSE [s |-> s, is_float |-> is_float,
                    has_digit_after_dot |-> has_digit_after_dot]

\* scan_number without the test for a digit after the '.'.
scan_number_trailing_dot(s) ==
    LET l == scan_number_loop(s, FALSE, FALSE)
        t == l.s
        invalid == LexerError("InvalidNumber", t.start_position, t.current_lexeme)
    IN  IF l.is_float
        THEN LET v == parse_f64(t.current_lexeme) IN
             [s |-> t,
              res |-> make_token(t, "FloatLiteral", v[1].value, v[1].scale, <<>>)]
        ELSE LET v == parse_i32(t.current_lexeme) IN
             IF v = <<>> THEN [s |-> t, res |-> invalid]
             ELSE [s |-> t, res |-> make_token(t, "IntLiteral", v[1], 0, <<>>)]

scan_number(s) ==
    LET l == scan_number_loop(s, FALSE, FALSE)
        t == l.s
        invalid == LexerError("InvalidNumber", t.start_position, t.current_lexeme)
    IN  IF l.is_float /\ ~l.has_digit_after_dot THEN [s |-> t, res |-> invalid]
        ELSE IF l.is_float
             THEN LET v == parse_f64(t.current_lexeme) IN
                  IF v = <<>> THEN [s |-> t, res |-> invalid]
                  ELSE [s |-> t,
                        res |-> make_token(t, "FloatLiteral", v[1].value,
                                           v[1].scale, <<>>)]
             ELSE LET v == parse_i32(t.current_lexeme) IN
                  IF v = <<>> THEN [s |-> t, res |-> invalid]
                  ELSE [s |-> t, res |-> make_token(t, "IntLiteral", v[1], 0, <<>>)]

MaxIdentifierLen == 255

\* The number of iterations of the loop: the characters before the first
\* one that is neither alphanumeric nor '_'.
identifier_run(chars) ==
    LET stops == {i \in 1..Len(chars) :
                     ~(is_ascii_alphanumeric(chars[i]) \/ chars[i] = "_")}
    IN  IF stops = {} THEN Len(chars)
        ELSE (CHOOSE i \in stops : \A j \in stops : i <= j) - 1

\* while peek() is alphanumeric or '_': advance(). Each of these n calls of
\* advance() takes a character that is no newline and no whitespace: the
\* column grows by one and the character is pushed to the lexeme. The n
\* calls are written as one update, since an identifier may have hundreds
\* of characters.
identifier_loop(s) ==
    LET n == identifier_run(s.chars) IN
    [s EXCEPT !.chars = SubSeq(@, n + 1, Len(@)),
              !.current_position = advance_column(@, n),
              !.current_lexeme = @ \o SubSeq(s.chars, 1, n)]

\* The match with `true` and `false` taken as keywords.
keyword_true_false(lexeme) ==
    CASE lexeme = <<"i", "f">> -> [kind |-> "KwIf", value |-> 0]
      [] lexeme = <<"e", "l", "s", "e">> -> [kind |-> "KwElse", value |-> 0]
      [] lexeme = <<"w", "h", "i", "l", "e">> -> [kind |-> "KwWhile", value |-> 0]
      [] lexeme = <<"f", "o", "r">> -> [kind |-> "KwFor", value |-> 0]
      [] lexeme = <<"i", "n", "t">> -> [kind |-> "KwInt", value |-> 0]
      [] lexeme = <<"f", "l", "o", "a", "t">> -> [kind |-> "KwFloat", value |-> 0]
      [] lexeme = <<"b", "o", "o", "l">> -> [kind |-> "KwBool", value |-> 0]
      [] lexeme = <<"r", "e", "t", "u", "r", "n">> -> [kind |-> "KwReturn", value |-> 0]
      [] lexeme = <<"t", "r", "u", "e">> -> [kind |-> "KwTrue", value |-> 0]
      [] lexeme = <<"f", "a", "l", "s", "e">> -> [kind |-> "KwFalse", value |-> 0]
      [] lexeme = <<"v", "o", "i", "d">> -> [kind |-> "KwVoid", value |-> 0]
      [] lexeme = <<"s", "t", "r", "u", "c", "t">> -> [kind |-> "KwStruct", value |-> 0]
      [] lexeme = <<"f", "n">> -> [kind |-> "KwFn", value |-> 0]
      [] OTHER -> [kind |-> "Identifier", value |-> 0]

\* The match on current_lexeme: the kind and the literal value.
keyword(lexeme) ==
    CASE lexeme = <<"i", "f">> -> [kind |-> "KwIf", value |-> 0]
      [] lexeme = <<"e", "l", "s", "e">> -> [kind |-> "KwElse", value |-> 0]
      [] lexeme = <<"w", "h", "i", "l", "e">> -> [kind |-> "KwWhile", value |-> 0]
      [] lexeme = <<"f", "o", "r">> -> [kind |-> "KwFor", value |-> 0]
      [] lexeme = <<"i", "n", "t">> -> [kind |-> "KwInt", value |-> 0]
      [] lexeme = <<"f", "l", "o", "a", "t">> -> [kind |-> "KwFloat", value |-> 0]
      [] lexeme = <<"b", "o", "o", "l">> -> [kind |-> "KwBool", value |-> 0]
      [] lexeme = <<"r", "e", "t", "u", "r", "n">> -> [kind |-> "KwReturn", value |-> 0]
      [] lexeme = <<"t", "r", "u", "e">> -> [kind |-> "BoolLiteral", value |-> 1]
      [] lexeme = <<"f", "a", "l", "s", "e">> -> [kind |-> "BoolLiteral", value |-> 0]
      [] lexeme = <<"v", "o", "i", "d">> -> [kind |-> "KwVoid", value |-> 0]
      [] lexeme = <<"s", "t", "r", "u", "c", "t">> -> [kind |-> "KwStruct", value |-> 0]
      [] lexeme = <<"f", "n">> -> [kind |-> "KwFn", value |-> 0]
      [] OTHER -> [kind |-> "Identifier", value |-> 0]

\* scan_identifier_or_keyword refusing a lexeme of the maximal length too.
scan_identifier_or_keyword_off_by_one(s) ==
    LET t == identifier_loop(s) IN
    IF Len(t.current_lexeme) >= MaxIdentifierLen
    THEN [s |-> t, res |-> LexerError("IdentifierTooLong", t.start_position, <<>>)]
    ELSE LET k == keyword(t.current_lexeme) IN
         [s |-> t,
          res |-> make_token(t, k.kind, k.value, 0,
                             IF k.kind = "Identifier" THEN t.current_lexeme ELSE <<>>)]

scan_identifier_or_keyword(s) ==
    LET t == identifier_loop(s) IN
    IF Len(t.current_lexeme) > MaxIdentifierLen
    THEN [s |-> t, res |-> LexerError("IdentifierTooLong", t.start_position, <<>>)]
    ELSE LET k == keyword(t.current_lexeme) IN
         [s |-> t,
          res |-> make_token(t, k.kind, k.value, 0,
                             IF k.kind = "Identifier" THEN t.current_lexeme ELSE <<>>)]

---------------------------------------------------------------------------
(* Scanner::next_token *)

\* The loop over comments at the head of next_token:
\* [s |-> the scanner afterwards, err |-> None | Some(error)]
RECURSIVE next_token_comments(_)

\* The `match self.skip_comments()` of the loop, on the result r.
skipped_comments(r) ==
    IF r.err = <<>> THEN next_token_comments(skip_whitespace(r.s))
    ELSE [s |-> [r.s EXCEPT !.error_recovery =
                                mark_recovered(@, r.s.start_position)],
          err |-> r.err]

next_token_comments(s) ==
    IF peek_is(s, "/") /\ Len(s.chars) >= 2 /\ s.chars[2] \in {"/", "*"}
    THEN skipped_comments(skip_comments(s))
    ELSE [s |-> s, err |-> <<>>]

Delimiters ==
    [c \in {"(", ")", "{", "}", "[", "]", ";", ",", ":"} |->
        CASE c = "(" -> "LParen" [] c = ")" -> "RParen"
          [] c = "{" -> "LBrace" [] c = "}" -> "RBrace"
          [] c = "[" -> "LBracket" [] c = "]" -> "RBracket"
          [] c = ";" -> "Semicolon" [] c = "," -> "Comma"
          [] c = ":" -> "Colon"]

\* An operator character that may be followed by '=': the compound kind, the plain kind.
CompoundOps ==
    [c \in {"+", "*", "/", "!", "=", "<", ">"} |->
        CASE c = "+" -> <<"PlusEq", "Plus">>
          [] c = "*" -> <<"AsteriskEq", "Asterisk">>
          [] c = "/" -> <<"SlashEq", "Slash">>
          [] c = "!" -> <<"BangEq", "Bang">>
          [] c = "=" -> <<"EqEq", "Eq">>
          [] c = "<" -> <<"LtEq", "Lt">>
          [] c = ">" -> <<"GtEq", "Gt">>]

simple_token(s, kind) == [s |-> s, res |-> make_token(s, kind, 0, 0, <<>>)]

\* The '-' arm with the '-' always taken as an operator.
dispatch_minus_operator(s) ==
    LET m == matches(s, "=") IN
    simple_token(m.s, IF m.ok THEN "MinusEq" ELSE "Minus")

\* The '-' arm of the match: a digit next makes the '-' part of a number.
dispatch_minus(s) ==
    IF s.chars # <<>> /\ is_ascii_digit(Head(s.chars)) THEN scan_number(s)
    ELSE LET m == matches(s, "=") IN
         simple_token(m.s, IF m.ok THEN "MinusEq" ELSE "Minus")

\* The match on the first character c, already consumed by advance().
dispatch(s, c) ==
    CASE c \in DOMAIN Delimiters -> simple_token(s, Delimiters[c])
      [] c \in DOMAIN CompoundOps ->
            LET m == matches(s, "=") IN
            simple_token(m.s, IF m.ok THEN CompoundOps[c][1] ELSE CompoundOps[c][2])
      [] c = "-" -> dispatch_minus(s)
      [] c = "%" -> simple_token(s, "Percent")
      [] c \in {"&", "|"} ->
            LET m == matches(s, c) IN
            IF m.ok THEN simple_token(m.s, IF c = "&" THEN "AmpAmp" ELSE "PipePipe")
            ELSE [s |-> m.s,
                  res |-> LexerError("UnexpectedCharacter", m.s.start_position, <<c>>)]
      [] c = "\"" -> scan_string(s)
      [] is_ascii_digit(c) -> scan_number(s)
      [] is_ascii_alphabetic(c) \/ c = "_" -> scan_identifier_or_keyword(s)
      [] OTHER ->
            [s |-> s,
             res |-> LexerError("UnexpectedCharacter", s.start_position, <<c>>)]

\* next_token after the loop over comments, with an error of the match
\* leaving the input where the token started.
next_token_scan_unread(c0) ==
    IF c0.err # <<>> THEN [s |-> c0.s, res |-> c0.err[1]]
    ELSE IF is_at_end(c0.s)
         THEN [s |-> c0.s, res |-> TokenEof(c0.s.current_position)]
         ELSE LET s1 == [c0.s EXCEPT !.start_position = c0.s.current_position,
                                     !.current_lexeme = <<>>]
                  r == dispatch(advance(s1), Head(s1.chars))
              IN  IF r.res.ok THEN r ELSE [s |-> s1, res |-> r.res]

\* next_token(): [s |-> the scanner afterwards, res |-> the Result returned]
\* next_token after the loop over comments, which ended as c0.
next_token_scan(c0) ==
    IF c0.err # <<>> THEN [s |-> c0.s, res |-> c0.err[1]]
    ELSE IF is_at_end(c0.s)
         THEN [s |-> c0.s, res |-> TokenEof(c0.s.current_position)]
         ELSE LET s1 == [c0.s EXCEPT !.start_position = c0.s.current_position,
                                     !.current_lexeme = <<>>]
              IN  dispatch(advance(s1), Head(s1.chars))

\* next_token(): [s |-> the scanner afterwards, res |-> the Result returned]
next_token(s0) ==
    next_token_scan(next_token_comments(skip_whitespace(start_token(s0))))

\* The restoring with the character cursor left where next_token put it.
peek_token_keeps_cursor(s, r) ==
    [s |-> [r.s EXCEPT !.current_position = s.current_position,
                       !.start_position = s.start_position,
                       !.current_lexeme = s.current_lexeme,
                       !.error_recovery = s.error_recovery],
     res |-> r.res]

\* The end of peek_token: next_token has returned r, and every field is
\* restored from the copies saved in s before the call.
peek_token_restore(s, r) ==
    [s |-> [r.s EXCEPT !.current_position = s.current_position,
                       !.start_position = s.start_position,
                       !.current_lexeme = s.current_lexeme,
                       !.chars = s.chars,
                       !.error_recovery = s.error_recovery],
     res |-> r.res]

\* peek_token(): [s |-> the scanner afterwards, res |-> the Result returned]
peek_token(s) == peek_token_restore(s, next_token(s))

\* The match that breaks on EndOfFile before the token is pushed.
scan_all_match_drops_eof(r, toks, errs) ==
    IF r.res.ok
    THEN [s |-> r.s,
          tokens |-> IF is_eof(r.res) THEN toks ELSE Append(toks, r.res),
          errors |-> errs, break |-> is_eof(r.res)]
    ELSE [s |-> advance(r.s), tokens |-> toks, errors |-> Append(errs, r.res),
          break |-> FALSE]

\* The match without the `if is_eof { break; }`.
scan_all_match_never_breaks(r, toks, errs) ==
    IF r.res.ok
    THEN [s |-> r.s, tokens |-> Append(toks, r.res), errors |-> errs,
          break |-> FALSE]
    ELSE [s |-> advance(r.s), tokens |-> toks, errors |-> Append(errs, r.res),
          break |-> FALSE]

\* The `match self.next_token()` of scan_all's loop, on the result r.
scan_all_match(r, toks, errs) ==
    IF r.res.ok
    THEN [s |-> r.s, tokens |-> Append(toks, r.res), errors |-> errs,
          break |-> is_eof(r.res)]
    ELSE LET marked == [r.s EXCEPT !.error_recovery =
                                      mark_recovered(@, r.s.start_position)]
             moved == advance(marked)
         IN  [s |-> IF marked.chars # <<>>
                    THEN [moved EXCEPT !.error_recovery = skip_char(@)]
                    ELSE moved,
              tokens |-> toks, errors |-> Append(errs, r.res), break |-> FALSE]

\* One iteration of scan_all's loop on (scanner, tokens, errors):
\* the new values and whether the loop breaks.
scan_all_iteration(s, toks, errs) == scan_all_match(next_token(s), toks, errs)

\* scan_all(): the loop run to its break, (tokens, errors) returned.
RECURSIVE scan_all_from(_, _, _)

\* The loop after an iteration that ended as `it`.
scan_all_loop(it) ==
    IF it.break THEN [tokens |-> it.tokens, errors |-> it.errors]
    ELSE scan_all_from(it.s, it.tokens, it.errors)

scan_all_from(s, toks, errs) == scan_all_loop(scan_all_iteration(s, toks, errs))

scan_all(src) == scan_all_from(ScannerNew(src), <<>>, <<>>)

---------------------------------------------------------------------------
(* MacroTable.  `macros` is the HashMap as a set of <<name, value>> pairs,  *)
(* one per name; `stack` is the HashSet expansion_stack.                   *)

\* is_alphanumeric that takes no digit.
is_alphanumeric_letters(c) == c \in Letters

is_alphanumeric(c) == c \in Letters \cup Digits

is_alphabetic(c) == c \in Letters

\* A PreprocessorError; `position` is None for the variants without one,
\* `text` the variant's name / directive field.
PreprocessorError(kind, position, text) ==
    [kind |-> kind, position |-> position, text |-> text]

is_valid_macro_name(name) ==
    /\ name # <<>>
    /\ is_alphabetic(name[1]) \/ name[1] = "_"
    /\ \A i \in DOMAIN name : is_alphanumeric(name[i]) \/ name[i] = "_"

is_defined(table, name) == \E m \in table : m[1] = name

\* macros.get(name).map(|m| m.value()): None | Some(value)
macro_value(table, name) ==
    IF is_defined(table, name)
    THEN <<(CHOOSE m \in table : m[1] = name)[2]>>
    ELSE <<>>

\* undefine that removes nothing.
undefine_nothing(table, name) == table

undefine(table, name) == {m \in table : m[1] # name}

\* define(): [err |-> None | Some(error), macros |-> the table afterwards]
define(table, name, value) ==
    IF ~is_valid_macro_name(name)
    THEN [err |-> <<PreprocessorError("InvalidMacroName", <<>>, name)>>,
          macros |-> table]
    ELSE [err |-> <<>>, macros |-> undefine(table, name) \cup {<<name, value>>}]

\* expand(input) on a table whose expansion_stack is `stack`:
\* [err |-> None | Some(error), out |-> the text returned by Ok,
\*  stack |-> expansion_stack when the call returns]
RECURSIVE expand(_, _, _)
RECURSIVE expand_loop(_, _, _, _, _, _)

\* The block with the macro's value inserted as it is defined, unexpanded.
expand_word_shallow(table, stack, result, current_word) ==
    LET macro == macro_value(table, current_word) IN
    IF macro = <<>> THEN [err |-> <<>>, out |-> result, stack |-> stack]
    ELSE [err |-> <<>>,
          out |-> SubSeq(result, 1, Len(result) - Len(current_word)) \o macro[1],
          stack |-> stack]

\* The block with a name found in the stack left as it is, no error raised.
expand_word_silent(table, stack, result, current_word) ==
    LET macro == macro_value(table, current_word) IN
    IF macro = <<>> \/ current_word \in stack
    THEN [err |-> <<>>, out |-> result, stack |-> stack]
    ELSE LET truncated == SubSeq(result, 1, Len(result) - Len(current_word))
             e == expand(table, stack \cup {current_word}, macro[1])
         IN  IF e.err # <<>> THEN e
             ELSE [err |-> <<>>, out |-> truncated \o e.out,
                   stack |-> e.stack \ {current_word}]

\* The `if let Some(value) = macro_value { ... }` block, met at the end of a
\* word: [err, out |-> result afterwards, stack].
expand_word(table, stack, result, current_word) ==
    LET macro == macro_value(table, current_word) IN
    IF macro = <<>> THEN [err |-> <<>>, out |-> result, stack |-> stack]
    ELSE LET truncated == SubSeq(result, 1, Len(result) - Len(current_word)) IN
         IF current_word \in stack
         THEN [err |-> <<PreprocessorError("MacroRecursion", <<>>, current_word)>>,
               out |-> <<>>, stack |-> stack]
         ELSE LET e == expand(table, stack \cup {current_word}, macro[1]) IN
              IF e.err # <<>> THEN e
              ELSE [err |-> <<>>, out |-> truncated \o e.out,
                    stack |-> e.stack \ {current_word}]

expand_loop(table, stack, rest, result, current_word, in_identifier) ==
    IF rest = <<>>
    THEN IF in_identifier /\ current_word # <<>>
         THEN expand_word(table, stack, result, current_word)
         ELSE [err |-> <<>>, out |-> result, stack |-> stack]
    ELSE LET c == Head(rest) IN
         IF is_alphanumeric(c) \/ c = "_"
         THEN expand_loop(table, stack, Tail(rest), Append(result, c),
                          IF in_identifier THEN Append(current_word, c) ELSE <<c>>,
                          TRUE)
         ELSE IF in_identifier
              THEN LET w == expand_word(table, stack, result, current_word) IN
                   IF w.err # <<>> THEN w
                   ELSE expand_loop(table, w.stack, Tail(rest), Append(w.out, c),
                                    current_word, FALSE)
              ELSE expand_loop(table, stack, Tail(rest), Append(result, c),
                               current_word, FALSE)

\* expand that copies a double-quoted string literal as it is: the text up
\* to the first quote is expanded, the text from that quote to the next one
\* (or to the end of the line) is copied, and the rest is expanded likewise.
expand_outside_strings(table, stack, input) ==
    LET quotes == {i \in DOMAIN input : input[i] = "\""}
        first == IF quotes = {} THEN 0
                 ELSE CHOOSE i \in quotes : \A j \in quotes : i <= j
        later == {i \in quotes : i > first}
        last == IF later = {} THEN Len(input)
                ELSE CHOOSE i \in later : \A j \in later : i <= j
    IN  IF first = 0 THEN expand_loop(table, stack, input, <<>>, <<>>, FALSE)
        ELSE LET head == expand_loop(table, stack, SubSeq(input, 1, first - 1),
                                     <<>>, <<>>, FALSE)
             IN  IF head.err # <<>> THEN head
                 ELSE LET tail == expand(table, head.stack,
                                         SubSeq(input, last + 1, Len(input)))
                      IN  IF tail.err # <<>> THEN tail
                          ELSE [err |-> <<>>,
                                out |-> head.out \o SubSeq(input, first, last) \o tail.out,
                                stack |-> tail.stack]

expand(table, stack, input) == expand_loop(table, stack, input, <<>>, <<>>, FALSE)

---------------------------------------------------------------------------
(* Preprocessor: comment stripping *)

\* The `for ch in chars.by_ref()` loop of a `//` comment:
\* [chars |-> what is left, out |-> result afterwards, newline |-> met '\n']
RECURSIVE strip_line_comment(_, _, _)
strip_line_comment(chars, keep, out) ==
    IF chars = <<>> THEN [chars |-> <<>>, out |-> out, newline |-> FALSE]
    ELSE IF Head(chars) = "\n"
         THEN [chars |-> Tail(chars), out |-> Append(out, "\n"), newline |-> TRUE]
         ELSE strip_line_comment(Tail(chars), keep,
                                 IF keep THEN Append(out, " ") ELSE out)

\* The guard of the backslash arm, with no backslash ever escaping.
escapes_never(st, c) == FALSE

\* '\\' if (in_string || in_char) && !in_comment
escapes(st, c) == c = "\\" /\ (st.in_string \/ st.in_char) /\ ~st.in_comment

\* The `while let Some(c) = chars.next()` loop; st holds the locals.
RECURSIVE remove_comments_loop(_, _, _)
remove_comments_loop(keep, chars, st) ==
    IF chars = <<>> THEN st
    ELSE
    LET c == Head(chars)
        rest == Tail(chars)
        pos == IF c = "\n" THEN [line |-> st.position.line + 1, column |-> 1]
               ELSE [st.position EXCEPT !.column = @ + 1]
        s1 == [st EXCEPT !.position = pos]
        code == ~st.in_string /\ ~st.in_char /\ ~st.in_comment
    IN  CASE st.escape_next ->
               remove_comments_loop(keep, rest,
                   [s1 EXCEPT !.escape_next = FALSE, !.result = Append(@, c)])
          [] ~st.escape_next /\ c = "\"" /\ ~st.in_char /\ ~st.in_comment ->
               remove_comments_loop(keep, rest,
                   [s1 EXCEPT !.in_string = ~@, !.result = Append(@, c)])
          [] ~st.escape_next /\ c = "'" /\ ~st.in_string /\ ~st.in_comment ->
               remove_comments_loop(keep, rest,
                   [s1 EXCEPT !.in_char = ~@, !.result = Append(@, c)])
          [] ~st.escape_next /\ escapes(st, c) ->
               remove_comments_loop(keep, rest,
                   [s1 EXCEPT !.escape_next = TRUE, !.result = Append(@, c)])
          [] ~st.escape_next /\ c = "/" /\ code ->
               IF rest # <<>> /\ Head(rest) = "/"
               THEN LET l == strip_line_comment(Tail(rest), keep,
                                 IF keep THEN Append(st.result, " ") ELSE st.result)
                    IN  remove_comments_loop(keep, l.chars,
                            [s1 EXCEPT !.result = l.out,
                                       !.position =
                                           IF l.newline
                                           THEN [line |-> pos.line + 1, column |-> 1]
                                           ELSE pos])
               ELSE IF rest # <<>> /\ Head(rest) = "*"
               THEN remove_comments_loop(keep, Tail(rest),
                        [s1 EXCEPT !.comment_start = <<pos>>,
                                   !.in_comment = TRUE,
                                   !.result = IF keep THEN @ \o <<" ", " ">> ELSE @])
               ELSE remove_comments_loop(keep, rest, [s1 EXCEPT !.result = Append(@, c)])
          [] ~st.escape_next /\ c = "*" /\ st.in_comment ->
               IF rest # <<>> /\ Head(rest) = "/"
               THEN remove_comments_loop(keep, Tail(rest),
                        [s1 EXCEPT !.in_comment = FALSE,
                                   !.comment_start = <<>>,
                                   !.result = IF keep THEN @ \o <<" ", " ">> ELSE @])
               ELSE remove_comments_loop(keep, rest,
                        [s1 EXCEPT !.result = IF keep THEN Append(@, " ") ELSE @])
          [] OTHER ->
               IF st.in_comment
               THEN remove_comments_loop(keep, rest,
                        [s1 EXCEPT !.result =
                            IF keep THEN Append(@, IF c = "\n" THEN "\n" ELSE " ")
                            ELSE @])
               ELSE remove_comments_loop(keep, rest, [s1 EXCEPT !.result = Append(@, c)])

\* A text in which the comment marks inside a block comment do not show: an
\* inner `/*` and the `*/` that matches it are blanks.
RECURSIVE flatten_nested(_, _)
flatten_nested(chars, depth) ==
    IF Len(chars) < 2 THEN chars
    ELSE IF SubSeq(chars, 1, 2) = <<"/", "*">>
         THEN (IF depth = 0 THEN <<"/", "*">> ELSE <<" ", " ">>)
              \o flatten_nested(SubSeq(chars, 3, Len(chars)), depth + 1)
    ELSE IF SubSeq(chars, 1, 2) = <<"*", "/">> /\ depth > 0
         THEN (IF depth = 1 THEN <<"*", "/">> ELSE <<" ", " ">>)
              \o flatten_nested(SubSeq(chars, 3, Len(chars)), depth - 1)
    ELSE <<Head(chars)>> \o flatten_nested(Tail(chars), depth)

\* remove_comments_from_whole_source with a nesting depth for block comments.
remove_comments_nested(keep, src, start_position) ==
    LET st == remove_comments_loop(keep, flatten_nested(src, 0),
                  [result |-> <<>>, position |-> start_position,
                   in_string |-> FALSE, in_char |-> FALSE, escape_next |-> FALSE,
                   in_comment |-> FALSE, comment_start |-> <<>>])
    IN  IF st.in_comment
        THEN [err |-> <<PreprocessorError("UnterminatedComment",
                            <<start_position>>, <<>>)>>,
              text |-> <<>>]
        ELSE [err |-> <<>>, text |-> st.result]

\* remove_comments_from_whole_source(): [err |-> None | Some(error), text]
remove_comments_from_whole_source(keep, src, start_position) ==
    LET st == remove_comments_loop(keep, src,
                  [result |-> <<>>, position |-> start_position,
                   in_string |-> FALSE, in_char |-> FALSE, escape_next |-> FALSE,
                   in_comment |-> FALSE, comment_start |-> <<>>])
    IN  IF st.in_comment
        THEN [err |-> <<PreprocessorError("UnterminatedComment",
                            <<IF st.comment_start # <<>> THEN st.comment_start[1]
                              ELSE start_position>>, <<>>)>>,
              text |-> <<>>]
        ELSE [err |-> <<>>, text |-> st.result]

---------------------------------------------------------------------------
(* Preprocessor: text helpers of the standard library *)

\* str::lines(): the lines without their terminator ("\n" or "\r\n"); a
\* final line with no terminator counts, an empty rest does not.
RECURSIVE lines_from(_, _, _)
lines_from(text, line, acc) ==
    IF text = <<>> THEN IF line = <<>> THEN acc ELSE Append(acc, line)
    ELSE IF Head(text) = "\n"
         THEN lines_from(Tail(text), <<>>,
                  Append(acc, IF line # <<>> /\ line[Len(line)] = "\r"
                              THEN SubSeq(line, 1, Len(line) - 1) ELSE line))
         ELSE lines_from(Tail(text), Append(line, Head(text)), acc)

lines(text) == lines_from(text, <<>>, <<>>)

RECURSIVE trim_start(_)
trim_start(line) ==
    IF line # <<>> /\ is_whitespace(Head(line)) THEN trim_start(Tail(line)) ELSE line

\* str::split_whitespace().collect()
RECURSIVE split_from(_, _, _)
split_from(text, word, acc) ==
    IF text = <<>> THEN IF word = <<>> THEN acc ELSE Append(acc, word)
    ELSE IF is_whitespace(Head(text))
         THEN split_from(Tail(text), <<>>, IF word = <<>> THEN acc ELSE Append(acc, word))
         ELSE split_from(Tail(text), Append(word, Head(text)), acc)

split_whitespace(text) == split_from(text, <<>>, <<>>)

\* parts.join(" ")
RECURSIVE join(_)
join(parts) ==
    IF parts = <<>> THEN <<>>
    ELSE IF Len(parts) = 1 THEN parts[1]
    ELSE parts[1] \o <<" ">> \o join(Tail(parts))

---------------------------------------------------------------------------
(* Preprocessor: directives *)

KwDefine == <<"#", "d", "e", "f", "i", "n", "e">>
KwUndef == <<"#", "u", "n", "d", "e", "f">>
KwIfdef == <<"#", "i", "f", "d", "e", "f">>
KwIfndef == <<"#", "i", "f", "n", "d", "e", "f">>
KwEndif == <<"#", "e", "n", "d", "i", "f">>
KwElse == <<"#", "e", "l", "s", "e">>
KwHash == <<"#">>

\* parse_directive(): None | Some(trimmed)
parse_directive(line) ==
    LET trimmed == trim_start(line) IN
    IF trimmed # <<>> /\ Head(trimmed) = "#" THEN <<trimmed>> ELSE <<>>

ConditionState(kind, active) == [kind |-> kind, active |-> active]

\* The result of process_directive: err is None | Some(error); on Ok, result
\* is "SkipLine" or "ProcessLine" (with `line`); macros and stack are the
\* macro table and the condition stack afterwards.
DirectiveOk(result, line, table, stack) ==
    [err |-> <<>>, result |-> result, line |-> line, macros |-> table,
     stack |-> stack]

DirectiveErr(error, table, stack) ==
    [err |-> <<error>>, result |-> "", line |-> <<>>, macros |-> table,
     stack |-> stack]

\* `#else` that leaves the top entry as it is.
flip_last_forgotten(condition_stack) == condition_stack

\* `#else` on a non-empty stack: `*active = !*active` on last_mut().
flip_last(condition_stack) ==
    [condition_stack EXCEPT ![Len(condition_stack)].active = ~@]

\* `#endif` that is ignored when the stack is empty.
pop_condition_lenient(table, condition_stack, position) ==
    DirectiveOk("SkipLine", <<>>, table,
                IF condition_stack = <<>> THEN <<>>
                ELSE SubSeq(condition_stack, 1, Len(condition_stack) - 1))

\* `#endif` with conditionals supported: condition_stack.pop(), an error if
\* there was nothing to pop.
pop_condition(table, condition_stack, position) ==
    IF condition_stack = <<>>
    THEN DirectiveErr(PreprocessorError("UnmatchedEndif", <<position>>, <<>>),
                      table, condition_stack)
    ELSE DirectiveOk("SkipLine", <<>>, table,
                     SubSeq(condition_stack, 1, Len(condition_stack) - 1))

\* A directive without its argument passed over in silence.
invalid_directive_skipped(table, condition_stack, directive, position) ==
    DirectiveOk("SkipLine", <<>>, table, condition_stack)

\* return Err(InvalidDirective { position, directive, reason }): the table
\* and the stack are as they were.
invalid_directive(table, condition_stack, directive, position) ==
    DirectiveErr(PreprocessorError("InvalidDirective", <<position>>, directive),
                 table, condition_stack)

process_directive(table, support_conditionals, directive, condition_stack, position) ==
    LET parts == split_whitespace(directive)
        missing(reason) == invalid_directive(table, condition_stack, directive, position)
        skip == DirectiveOk("SkipLine", <<>>, table, condition_stack)
    IN
    IF parts = <<>> THEN skip
    ELSE CASE parts[1] = KwDefine ->
                IF Len(parts) < 2 THEN missing("Missing macro name")
                ELSE LET d == define(table, parts[2],
                                     IF Len(parts) > 2
                                     THEN join(SubSeq(parts, 3, Len(parts)))
                                     ELSE <<>>)
                     IN  IF d.err # <<>>
                         THEN DirectiveErr(d.err[1], table, condition_stack)
                         ELSE DirectiveOk("SkipLine", <<>>, d.macros, condition_stack)
           [] parts[1] = KwUndef ->
                IF Len(parts) < 2 THEN missing("Missing macro name")
                ELSE DirectiveOk("SkipLine", <<>>, undefine(table, parts[2]),
                                 condition_stack)
           [] parts[1] = KwIfdef ->
                IF ~support_conditionals THEN skip
                ELSE IF Len(parts) < 2 THEN missing("Missing condition")
                ELSE DirectiveOk("SkipLine", <<>>, table,
                         Append(condition_stack,
                                ConditionState("IfDef", is_defined(table, parts[2]))))
           [] parts[1] = KwIfndef ->
                IF ~support_conditionals THEN skip
                ELSE IF Len(parts) < 2 THEN missing("Missing condition")
                ELSE DirectiveOk("SkipLine", <<>>, table,
                         Append(condition_stack,
                                ConditionState("IfNDef", ~is_defined(table, parts[2]))))
           [] parts[1] = KwEndif ->
                IF ~support_conditionals THEN skip
                ELSE pop_condition(table, condition_stack, position)
           [] parts[1] = KwHash -> skip
           [] parts[1] = KwElse ->
                IF ~support_conditionals THEN skip
                ELSE IF condition_stack = <<>>
                THEN DirectiveErr(PreprocessorError("UnmatchedElse", <<position>>, <<>>),
                                  table, condition_stack)
                ELSE DirectiveOk("SkipLine", <<>>, table, flip_last(condition_stack))
           [] OTHER -> DirectiveOk("ProcessLine", directive, table, condition_stack)

\* is_section_active that looks at the innermost entry only.
is_section_active_innermost(condition_stack) ==
    condition_stack = <<>> \/ condition_stack[Len(condition_stack)].active

is_section_active(condition_stack) ==
    \A i \in DOMAIN condition_stack : condition_stack[i].active

---------------------------------------------------------------------------
(* Preprocessor::process, as its position and locals:                      *)
(*   pc               "idle" (not called) | "lines" (in the for loop) |    *)
(*                    "returned"                                           *)
(*   lines, line_num  the lines of the comment-free text, the 1-indexed    *)
(*                    number of the line the loop is at                    *)
(*   condition_stack, result   the locals of that name                     *)
(*   ret              None | Some(the Result returned)                     *)
(*   emitted          the numbers of the lines whose text was pushed to    *)
(*                    `result`                                             *)
(*   previous         what the caller has from the calls before this one:  *)
(*                    the Results they returned                            *)

NoError == PreprocessorError("", <<>>, <<>>)

ProcessOk(text) == [ok |-> TRUE, text |-> text, error |-> NoError]

ProcessErr(error) == [ok |-> FALSE, text |-> <<>>, error |-> error]

ProcessNew ==
    [pc |-> "idle", lines |-> <<>>, line_num |-> 0, condition_stack |-> <<>>,
     result |-> <<>>, ret |-> <<>>, emitted |-> <<>>, previous |-> <<>>]

\* process() up to the for loop.
process_start(keep, src) ==
    LET processed == remove_comments_from_whole_source(keep, src, Position(1, 1)) IN
    IF processed.err # <<>>
    THEN [ProcessNew EXCEPT !.pc = "returned",
                            !.ret = <<ProcessErr(processed.err[1])>>]
    ELSE [ProcessNew EXCEPT !.pc = "lines", !.lines = lines(processed.text),
                            !.line_num = 1]

\* The for loop's body with an error recorded and the loop going on.
process_line_going_on(table, xstack, keep, support, p) ==
    LET line == p.lines[p.line_num]
        directive == parse_directive(line)
        d == process_directive(table, support, directive[1], p.condition_stack,
                               Position(p.line_num, 1))
        next == [p EXCEPT !.line_num = @ + 1]
    IN  IF directive # <<>>
        THEN [macros |-> d.macros, expansion_stack |-> xstack,
              pp |-> [next EXCEPT !.condition_stack = d.stack,
                                  !.ret = IF d.err # <<>> /\ p.ret = <<>>
                                          THEN <<ProcessErr(d.err[1])>> ELSE @]]
        ELSE LET e == expand(table, xstack, line) IN
             [macros |-> table, expansion_stack |-> e.stack,
              pp |-> [next EXCEPT !.ret = IF e.err # <<>> /\ p.ret = <<>>
                                          THEN <<ProcessErr(e.err[1])>> ELSE @]]

\* The for loop's body with #define and #undef left out in inactive sections.
process_line_active_only(table, xstack, keep, support, p) ==
    LET line == p.lines[p.line_num]
        directive == parse_directive(line)
        next == [p EXCEPT !.line_num = @ + 1]
        failed(error) == [p EXCEPT !.pc = "returned", !.ret = <<ProcessErr(error)>>]
    IN  IF /\ directive # <<>>
           /\ ~is_section_active(p.condition_stack)
           /\ split_whitespace(directive[1]) # <<>>
           /\ split_whitespace(directive[1])[1] \in {KwDefine, KwUndef}
        THEN [macros |-> table, expansion_stack |-> xstack, pp |-> next]
        ELSE IF directive # <<>>
        THEN LET d == process_directive(table, support, directive[1],
                                        p.condition_stack, Position(p.line_num, 1))
             IN  IF d.err # <<>>
                 THEN [macros |-> d.macros, expansion_stack |-> xstack,
                       pp |-> failed(d.err[1])]
                 ELSE IF d.result = "SkipLine"
                 THEN [macros |-> d.macros, expansion_stack |-> xstack,
                       pp |-> [next EXCEPT !.condition_stack = d.stack]]
                 ELSE [macros |-> d.macros, expansion_stack |-> xstack,
                       pp |-> [next EXCEPT !.condition_stack = d.stack,
                                           !.result = @ \o d.line \o <<"\n">>,
                                           !.emitted = Append(@, p.line_num)]]
        ELSE IF ~is_section_active(p.condition_stack)
        THEN [macros |-> table, expansion_stack |-> xstack,
              pp |-> [next EXCEPT !.result = IF keep THEN Append(@, "\n") ELSE @]]
        ELSE LET e == expand(table, xstack, line) IN
             IF e.err # <<>>
             THEN [macros |-> table, expansion_stack |-> e.stack,
                   pp |-> failed(e.err[1])]
             ELSE [macros |-> table, expansion_stack |-> e.stack,
                   pp |-> [next EXCEPT !.result = @ \o e.out \o <<"\n">>,
                                       !.emitted = Append(@, p.line_num)]]

\* One pass of the for loop's body, on the macro table (table, xstack):
\* [macros, expansion_stack, pp] afterwards.
process_line(table, xstack, keep, support, p) ==
    LET line == p.lines[p.line_num]
        directive == parse_directive(line)
        next == [p EXCEPT !.line_num = @ + 1]
        failed(error) == [p EXCEPT !.pc = "returned", !.ret = <<ProcessErr(error)>>]
    IN  IF directive # <<>>
        THEN LET d == process_directive(table, support, directive[1],
                                        p.condition_stack, Position(p.line_num, 1))
             IN  IF d.err # <<>>
                 THEN [macros |-> d.macros, expansion_stack |-> xstack,
                       pp |-> failed(d.err[1])]
                 ELSE IF d.result = "SkipLine"
                 THEN [macros |-> d.macros, expansion_stack |-> xstack,
                       pp |-> [next EXCEPT !.condition_stack = d.stack]]
                 ELSE [macros |-> d.macros, expansion_stack |-> xstack,
                       pp |-> [next EXCEPT !.condition_stack = d.stack,
                                           !.result = @ \o d.line \o <<"\n">>,
                                           !.emitted = Append(@, p.line_num)]]
        ELSE IF ~is_section_active(p.condition_stack)
        THEN [macros |-> table, expansion_stack |-> xstack,
              pp |-> [next EXCEPT !.result = IF keep THEN Append(@, "\n") ELSE @]]
        ELSE LET e == expand(table, xstack, line) IN
             IF e.err # <<>>
             THEN [macros |-> table, expansion_stack |-> e.stack,
                   pp |-> failed(e.err[1])]
             ELSE [macros |-> table, expansion_stack |-> e.stack,
                   pp |-> [next EXCEPT !.result = @ \o e.out \o <<"\n">>,
                                       !.emitted = Append(@, p.line_num)]]

\* The end of process() without the look at the condition stack.
process_end_unchecked(p) ==
    [p EXCEPT !.pc = "returned", !.ret = <<ProcessOk(p.result)>>]

\* process() after the for loop.
process_end(p) ==
    IF p.condition_stack # <<>>
    THEN [p EXCEPT !.pc = "returned",
                   !.ret = <<ProcessErr(PreprocessorError("UnterminatedConditional",
                                                          <<Position(1, 1)>>, <<>>))>>]
    ELSE [p EXCEPT !.pc = "returned", !.ret = <<ProcessOk(p.result)>>]

---------------------------------------------------------------------------
(* The variables of the components a specification does not exercise keep  *)
(* their values after construction.                                        *)

ScannerIdle ==
    /\ source = <<>>
    /\ scanner = ScannerNew(<<>>)
    /\ tokens = <<>>
    /\ errors = <<>>
    /\ pc = "idle"
    /\ results = <<>>
    /\ peeked = <<>>

TableIdle ==
    /\ macros = {}
    /\ expansion_stack = {}
    /\ expanded = <<>>

PPIdle ==
    /\ pp_source = <<>>
    /\ preserve = TRUE
    /\ conditionals = TRUE
    /\ pp = ProcessNew

PositionIdle == positions = [overflow_checks |-> FALSE, panicked |-> FALSE, made |-> <<>>]

---------------------------------------------------------------------------
(* Scanner::scan_all on a fresh scanner, one loop iteration per step *)

ScanMaxLen == 4

ScanAlphabet == {"a", "1", "@", " ", "\"", "/"}

ScanAllInit ==
    /\ source \in SeqsUpTo(ScanAlphabet, ScanMaxLen)
    /\ scanner = ScannerNew(source)
    /\ tokens = <<>>
    /\ errors = <<>>
    /\ pc = "idle"
    /\ results = <<>>
    /\ peeked = <<>>
    /\ TableIdle
    /\ PositionIdle
    /\ PPIdle

\* scan_all is called: the two vectors are created.
ScanAllStart ==
    /\ pc = "idle"
    /\ pc' = "loop"
    /\ tokens' = <<>>
    /\ errors' = <<>>
    /\ UNCHANGED <<positions, source, scanner, results, peeked, table_vars, pp_vars>>

\* One iteration of the loop; on the EndOfFile token the loop breaks and
\* scan_all returns (tokens, errors).
ScanAllIter ==
    /\ pc = "loop"
    /\ \E it \in {scan_all_iteration(scanner, tokens, errors)} :
       /\ scanner' = it.s
       /\ tokens' = it.tokens
       /\ errors' = it.errors
       /\ pc' = IF it.break THEN "done" ELSE "loop"
    /\ UNCHANGED <<positions, source, results, peeked, table_vars, pp_vars>>

ScanAllNext == ScanAllStart \/ ScanAllIter

ScanAllSpec == ScanAllInit /\ [][ScanAllNext]_vars

---------------------------------------------------------------------------
(* A caller of next_token and peek_token, in any order *)

TokenMaxLen == 5

MaxCalls == 6

TokenAlphabet == {"/", "*", "a", "@", "\n"}

TokenInit ==
    /\ source \in SeqsUpTo(TokenAlphabet, TokenMaxLen)
    /\ scanner = ScannerNew(source)
    /\ tokens = <<>>
    /\ errors = <<>>
    /\ pc = "idle"
    /\ results = <<>>
    /\ peeked = <<>>
    /\ TableIdle
    /\ PositionIdle
    /\ PPIdle

NextTokenCall ==
    /\ Len(results) < MaxCalls
    /\ \E r \in {next_token(scanner)} :
       /\ scanner' = r.s
       /\ results' = Append(results, r.res)
    /\ peeked' = <<>>
    /\ UNCHANGED <<positions, source, tokens, errors, pc, table_vars, pp_vars>>

PeekTokenCall ==
    /\ \E r \in {peek_token(scanner)} :
       /\ scanner' = r.s
       /\ peeked' = <<r.res>>
    /\ UNCHANGED <<positions, source, tokens, errors, pc, results, table_vars, pp_vars>>

TokenNext == NextTokenCall \/ PeekTokenCall

TokenSpec == TokenInit /\ [][TokenNext]_vars


---------------------------------------------------------------------------
(* Claims about the Scanner *)

\* Whether the loop of scan_all, continued from scanner state s, breaks
\* within `fuel` iterations.
RECURSIVE BreaksWithin(_, _)
BreaksWithin(s, fuel) ==
    IF fuel = 0 THEN FALSE
    ELSE LET it == scan_all_iteration(s, <<>>, <<>>) IN
         it.break \/ BreaksWithin(it.s, fuel - 1)

\* C1: scan_all terminates for every input.  In every state of the loop,
\* the iterations performed so far have each consumed at least one
\* character, and the loop reaches the EndOfFile token (its break) within at
\* most one iteration per remaining character plus one.
C1_ScanAllTerminates ==
    pc = "loop" =>
        /\ Len(tokens) + Len(errors) <= Len(source) - Len(scanner.chars)
        /\ BreaksWithin(scanner, Len(scanner.chars) + 1)

\* scan_all has returned on an input made only of invalid characters.
C1_Witness ==
    /\ pc = "done"
    /\ Len(source) = ScanMaxLen
    /\ \A i \in DOMAIN source : source[i] = "@"
    /\ is_eof(tokens[Len(tokens)])

\* The results of the first n next_token calls on a scanner nobody peeks into.
RECURSIVE NextTokenResults(_, _)
NextTokenResults(s, n) ==
    IF n = 0 THEN <<>>
    ELSE LET r == next_token(s) IN <<r.res>> \o NextTokenResults(r.s, n - 1)

\* C2: peek_token changes no field of the scanner; consecutive peek_token
\* calls return equal results; the next_token call that follows a peek_token
\* returns what the peek returned; and the next_token results are those of a
\* scanner that was never peeked into.
C2_PeekTokenIsPure ==
    /\ [][/\ peeked' # <<>> => scanner' = scanner
          /\ (peeked # <<>> /\ peeked' # <<>>) => peeked' = peeked
          /\ (peeked # <<>> /\ Len(results') > Len(results))
                => results'[Len(results')] = peeked[1]]_vars
    /\ [](results = NextTokenResults(ScannerNew(source), Len(results)))

\* A peek_token call after two next_token calls, with more input ahead.
C2_Witness ==
    /\ peeked # <<>>
    /\ Len(results) >= 2
    /\ ~is_eof(peeked[1])
    /\ scanner.chars # <<>>

\* The sources in which every '@' lies outside string literals and comments.
NoStringNoComment(src) == \A i \in DOMAIN src : src[i] \notin {"\"", "/"}

Blanked(src) == [i \in DOMAIN src |-> IF src[i] = "@" THEN " " ELSE src[i]]

\* C7: after a lexical error scan_all resumes from the next character, so no
\* valid token that follows an invalid character is missing: the token list
\* holds every token of the same text with the invalid characters blanked.
C7_NoTokenLostAfterError ==
    (pc = "done" /\ NoStringNoComment(source)) =>
        LET expected == scan_all(Blanked(source)).tokens IN
        \A i \in DOMAIN expected : \E j \in DOMAIN tokens : tokens[j] = expected[i]

\* C8: every character that cannot start a token yields its own
\* UnexpectedCharacter error at its position: k such characters, k errors.
C8_EveryInvalidCharacterReported ==
    (pc = "done" /\ NoStringNoComment(source)) =>
        /\ Len(errors) = Cardinality({i \in DOMAIN source : source[i] = "@"})
        /\ \A i \in DOMAIN source :
              source[i] = "@" =>
                  \E j \in DOMAIN errors :
                      /\ errors[j].kind = "UnexpectedCharacter"
                      /\ errors[j].position = Position(1, i)

\* The index of the '/' of the `*/` that brings the nesting depth of a block
\* comment back to 0, scanning src from index i at depth `depth`; 0 if none.
RECURSIVE CommentEnd(_, _, _)
CommentEnd(src, i, depth) ==
    IF i + 1 > Len(src) THEN 0
    ELSE IF src[i] = "/" /\ src[i + 1] = "*" THEN CommentEnd(src, i + 2, depth + 1)
    ELSE IF src[i] = "*" /\ src[i + 1] = "/"
         THEN IF depth = 1 THEN i + 1 ELSE CommentEnd(src, i + 2, depth - 1)
    ELSE CommentEnd(src, i + 1, depth)

\* C10: next_token skips a block comment, with nesting: on a source that
\* begins with a closed block comment, the first next_token call returns what
\* it returns on the text after the comment (kind and lexeme).
C10_BlockCommentSkipped ==
    LET e == IF Len(source) >= 2 /\ source[1] = "/" /\ source[2] = "*"
             THEN CommentEnd(source, 3, 1) ELSE 0
    IN  (e > 0 /\ Len(results) >= 1) =>
            LET after == next_token(ScannerNew(SubSeq(source, e + 1, Len(source)))).res
            IN  /\ results[1].ok = after.ok
                /\ results[1].kind = after.kind
                /\ results[1].lexeme = after.lexeme


---------------------------------------------------------------------------
(* Preprocessor::process on a configured Preprocessor, one line per step.  *)
(* The initial states are those after Preprocessor::new(source) and the    *)
(* configuration calls define, preserve_line_numbers, enable_conditionals. *)

\* The source text of a sequence of lines, each ended by a newline.
RECURSIVE Text(_)
Text(ls) == IF ls = <<>> THEN <<>> ELSE Head(ls) \o <<"\n">> \o Text(Tail(ls))

NameA == <<"A">>
NameB == <<"B">>
NameC == <<"C">>

ProcessStart ==
    /\ pp.pc = "idle"
    /\ pp' = process_start(preserve, pp_source)
    /\ UNCHANGED <<positions, scan_vars, table_vars, pp_source, preserve, conditionals>>

ProcessLine ==
    /\ pp.pc = "lines"
    /\ pp.line_num <= Len(pp.lines)
    /\ LET r == process_line(macros, expansion_stack, preserve, conditionals, pp) IN
       /\ macros' = r.macros
       /\ expansion_stack' = r.expansion_stack
       /\ pp' = r.pp
    /\ UNCHANGED <<positions, scan_vars, expanded, pp_source, preserve, conditionals>>

ProcessEnd ==
    /\ pp.pc = "lines"
    /\ pp.line_num > Len(pp.lines)
    /\ pp' = process_end(pp)
    /\ UNCHANGED <<positions, scan_vars, table_vars, pp_source, preserve, conditionals>>

ProcessNext == ProcessStart \/ ProcessLine \/ ProcessEnd

\* Sources of conditional blocks, with A defined by the caller or not.
CondMaxLines == 5

CondLines ==
    {KwIfdef \o <<" ", "A">>, KwIfndef \o <<" ", "A">>, KwElse, KwEndif, <<"x">>}

CondInit ==
    /\ ScannerIdle
    /\ PositionIdle
    /\ \E ls \in SeqsUpTo(CondLines, CondMaxLines) : pp_source = Text(ls)
    /\ macros \in {{}, define({}, NameA, <<"1">>).macros}
    /\ expansion_stack = {}
    /\ expanded = <<>>
    /\ preserve \in BOOLEAN
    /\ conditionals = TRUE
    /\ pp = ProcessNew

CondSpec == CondInit /\ [][ProcessNext]_vars


---------------------------------------------------------------------------
(* Claims about conditional compilation *)

SourceLines == lines(pp_source)

IsOrdinary(line) == parse_directive(line) = <<>>

\* The lines between the first and the last that read `#else`.
ElseLines(ls) == {k \in 2..(Len(ls) - 1) : split_whitespace(ls[k]) = <<KwElse>>}

\* `#ifdef N` or `#ifndef N`, ordinary lines, `#else`, ordinary lines, `#endif`.
IfElseShape(ls) ==
    /\ Len(ls) >= 3
    /\ Len(split_whitespace(ls[1])) = 2
    /\ split_whitespace(ls[1])[1] \in {KwIfdef, KwIfndef}
    /\ split_whitespace(ls[Len(ls)]) = <<KwEndif>>
    /\ Cardinality(ElseLines(ls)) = 1
    /\ \A k \in 2..(Len(ls) - 1) : k \in ElseLines(ls) \/ IsOrdinary(ls[k])

\* The output of the ordinary lines lo..hi of a branch that is taken or not.
RECURSIVE BranchOutput(_, _, _, _)
BranchOutput(ls, lo, hi, taken) ==
    IF lo > hi THEN <<>>
    ELSE (IF taken THEN ls[lo] \o <<"\n">>
          ELSE IF preserve THEN <<"\n">> ELSE <<>>)
         \o BranchOutput(ls, lo + 1, hi, taken)

C6_EmittedIffAllActive ==
    [][(/\ pp.pc = "lines"
        /\ pp.line_num <= Len(pp.lines)
        /\ IsOrdinary(pp.lines[pp.line_num]))
       => LET stack == pp.condition_stack
              emits == pp'.emitted = Append(pp.emitted, pp.line_num)
              fails == pp'.ret # <<>> /\ ~pp'.ret[1].ok
          IN  /\ (\A i \in DOMAIN stack : stack[i].active) => (emits \/ fails)
              /\ (\E i \in DOMAIN stack : ~stack[i].active)
                    => (pp'.emitted = pp.emitted /\ ~fails)]_vars

\* An ordinary line was met, and not emitted, inside an active block nested
\* in an inactive one.
C6_Witness ==
    /\ pp.pc = "lines"
    /\ pp.line_num > 1
    /\ IsOrdinary(pp.lines[pp.line_num - 1])
    /\ Len(pp.condition_stack) = 2
    /\ ~pp.condition_stack[1].active
    /\ pp.condition_stack[2].active
    /\ \A i \in DOMAIN pp.emitted : pp.emitted[i] # pp.line_num - 1

---------------------------------------------------------------------------
(* A MacroTable driven through its public methods *)

TableNames == {NameA, NameB}

TableValues == {<<"A">>, <<"B">>, <<"1">>}

TableInputs ==
    {<<"A">>, <<"B">>, <<"A", " ", "B">>, <<"A", "B">>, <<"A", "2">>, <<"_", "A">>,
     <<"(", "A", ")", "+", "x">>, <<"x", ";">>, <<"\"", "A", "\"">>}

TableDefine ==
    \E name \in TableNames, value \in TableValues :
        /\ macros' = define(macros, name, value).macros
        /\ UNCHANGED <<positions, scan_vars, expansion_stack, expanded, pp_vars>>

TableUndefine ==
    \E name \in TableNames :
        /\ macros' = undefine(macros, name)
        /\ UNCHANGED <<positions, scan_vars, expansion_stack, expanded, pp_vars>>

TableExpand ==
    \E input \in TableInputs :
        LET e == expand(macros, expansion_stack, input) IN
        /\ expansion_stack' = e.stack
        /\ expanded' = <<[table |-> macros, input |-> input,
                           err |-> e.err, out |-> e.out]>>
        /\ UNCHANGED <<positions, scan_vars, macros, pp_vars>>

TableNext == TableDefine \/ TableUndefine \/ TableExpand

TableInit == ScannerIdle /\ TableIdle /\ PPIdle /\ PositionIdle

TableSpec == TableInit /\ [][TableNext]_vars

\* C4: the expansion stack is empty between top-level expand calls, and the
\* result of the last expand call is the one that the definitions it was
\* called with and its input line give on an empty stack.
C4_StackNotPersisted ==
    /\ expansion_stack = {}
    /\ expanded # <<>> =>
          LET fresh == expand(expanded[1].table, {}, expanded[1].input) IN
          /\ (expanded[1].err = <<>>) = (fresh.err = <<>>)
          /\ expanded[1].err = <<>> => expanded[1].out = fresh.out

---------------------------------------------------------------------------
(* Sources that define macros in cycles and use them *)

CycleMaxLines == 4

CycleLines ==
    {KwDefine \o <<" ", "A", " ", "A">>, KwDefine \o <<" ", "A", " ", "B">>,
     KwDefine \o <<" ", "B", " ", "A">>, KwDefine \o <<" ", "B", " ", "C">>,
     KwDefine \o <<" ", "C", " ", "A">>, KwDefine \o <<" ", "C", " ", "1">>,
     <<"A">>, <<"x", " ", "B", ";">>}

CycleInit ==
    /\ ScannerIdle
    /\ TableIdle
    /\ PositionIdle
    /\ \E ls \in SeqsUpTo(CycleLines, CycleMaxLines) : pp_source = Text(ls)
    /\ preserve = TRUE
    /\ conditionals = TRUE
    /\ pp = ProcessNew

CycleSpec == CycleInit /\ [][ProcessNext]_vars

\* The maximal runs of identifier characters of a line.
Words(line) ==
    LET alnum(i) == is_alphanumeric(line[i]) \/ line[i] = "_" IN
    {SubSeq(line, i, j) : <<i, j>> \in
        {ij \in (DOMAIN line) \X (DOMAIN line) :
            /\ ij[1] <= ij[2]
            /\ \A k \in ij[1]..ij[2] : alnum(k)
            /\ ij[1] = 1 \/ ~alnum(ij[1] - 1)
            /\ ij[2] = Len(line) \/ ~alnum(ij[2] + 1)}}

\* The macros the definition of `name` mentions.
Mentions(table, name) ==
    IF is_defined(table, name)
    THEN {w \in Words(macro_value(table, name)[1]) : is_defined(table, w)}
    ELSE {}

\* The macros reached from `names` in one to n steps.
RECURSIVE ReachedFrom(_, _, _)
ReachedFrom(table, names, n) ==
    IF n = 0 THEN {}
    ELSE LET step == UNION {Mentions(table, m) : m \in names}
         IN  step \cup ReachedFrom(table, step, n - 1)

RefersBack(table, name) == name \in ReachedFrom(table, {name}, Cardinality(table))

---------------------------------------------------------------------------
(* Sources with errors of every kind *)

FailMaxLines == 3

FailLines ==
    {KwDefine \o <<" ", "A", " ", "1">>, KwDefine \o <<" ", "A", " ", "A">>,
     KwDefine, KwEndif, KwElse, <<"A">>, <<"/", "*">>}

FailInit ==
    /\ ScannerIdle
    /\ TableIdle
    /\ PositionIdle
    /\ \E ls \in SeqsUpTo(FailLines, FailMaxLines) : pp_source = Text(ls)
    /\ preserve = TRUE
    /\ conditionals = TRUE
    /\ pp = ProcessNew

FailSpec == FailInit /\ [][ProcessNext]_vars

Failed(p) == p.ret # <<>> /\ ~p.ret[1].ok

\* C9: once process has detected an error the call is over: the error is what
\* it returns, with no output text; nothing is processed after it, so the
\* result, the output built so far and the macro definitions change no more.
C9_FailFast ==
    [][/\ Failed(pp) => (pp' = pp /\ macros' = macros)
       /\ (~Failed(pp) /\ Failed(pp'))
             => /\ pp'.pc = "returned"
                /\ pp'.ret[1].text = <<>>
                /\ macros' = macros
                /\ pp'.line_num = pp.line_num
                /\ pp'.result = pp.result]_vars

\* process failed at a line that is followed by a `#define` that would have
\* defined a macro.
C9_Witness ==
    /\ pp.pc = "returned"
    /\ Failed(pp)
    /\ macros = {}
    /\ pp.line_num < Len(pp.lines)
    /\ pp.lines[pp.line_num + 1] = KwDefine \o <<" ", "A", " ", "1">>

---------------------------------------------------------------------------
(* Claims about unterminated comments *)

\* C11: when the source ends inside a block comment, scanning reports
\* UnterminatedComment at the start of that comment: on a source that begins
\* with a `/*` that is never closed, the first next_token call returns that
\* error, positioned at line 1, column 1.
C11_UnterminatedCommentReported ==
    (/\ Len(source) >= 2
     /\ source[1] = "/"
     /\ source[2] = "*"
     /\ CommentEnd(source, 3, 1) = 0
     /\ Len(results) >= 1)
    => /\ ~results[1].ok
       /\ results[1].kind = "UnterminatedComment"
       /\ results[1].position = Position(1, 1)

\* C12: the UnterminatedComment error of process is positioned at the `/` of
\* a `/*` of the source.
C12_CommentErrorAtItsSlash ==
    (Failed(pp) /\ pp.ret[1].error.kind = "UnterminatedComment") =>
        LET at == pp.ret[1].error.position[1]
            ls == SourceLines
        IN  /\ at.line \in DOMAIN ls
            /\ at.column \in DOMAIN ls[at.line]
            /\ at.column + 1 \in DOMAIN ls[at.line]
            /\ ls[at.line][at.column] = "/"
            /\ ls[at.line][at.column + 1] = "*"

---------------------------------------------------------------------------
(* Claims about unbalanced conditional directives *)

\* The directive word of a line, <<>> for a line that is no directive.
DirectiveWord(line) ==
    IF IsOrdinary(line) THEN <<>> ELSE split_whitespace(line)[1]

\* The number of lines among the first n of ls whose directive word is in kws.
CountDirectives(ls, n, kws) ==
    Cardinality({k \in 1..n : DirectiveWord(ls[k]) \in kws})

\* C13: with conditionals enabled, `#else` on an empty condition stack fails
\* with UnmatchedElse and `#endif` on an empty stack fails with
\* UnmatchedEndif; the depth of the stack is the number of `#ifdef`/`#ifndef`
\* lines minus the number of `#endif` lines processed so far, never negative.
C13_UnmatchedElseEndif ==
    /\ [][(/\ conditionals
           /\ pp.pc = "lines"
           /\ pp.line_num <= Len(pp.lines)
           /\ pp.condition_stack = <<>>
           /\ DirectiveWord(pp.lines[pp.line_num]) \in {KwElse, KwEndif})
          => /\ Failed(pp')
             /\ pp'.ret[1].error.kind =
                    IF DirectiveWord(pp.lines[pp.line_num]) = KwElse
                    THEN "UnmatchedElse" ELSE "UnmatchedEndif"
             /\ pp'.condition_stack = <<>>]_vars
    /\ []((conditionals /\ pp.pc = "lines") =>
            LET opened == CountDirectives(pp.lines, pp.line_num - 1, {KwIfdef, KwIfndef})
                closed == CountDirectives(pp.lines, pp.line_num - 1, {KwEndif})
            IN  /\ closed <= opened
                /\ Len(pp.condition_stack) = opened - closed)

\* An `#endif` that follows a closed block was answered with UnmatchedEndif.
C13_Witness ==
    /\ conditionals
    /\ Failed(pp)
    /\ pp.ret[1].error.kind = "UnmatchedEndif"
    /\ pp.line_num = 3
    /\ DirectiveWord(pp.lines[1]) = KwIfdef
    /\ DirectiveWord(pp.lines[2]) = KwEndif

\* C14: with conditionals enabled, process returns Ok only if every
\* `#ifdef`/`#ifndef` has been closed: a call that reaches the end of the
\* lines with a non-empty condition stack returns UnterminatedConditional.
C14_UnterminatedConditional ==
    (conditionals /\ pp.pc = "returned") =>
        /\ (pp.line_num > Len(pp.lines) /\ pp.condition_stack # <<>>)
              => (Failed(pp) /\ pp.ret[1].error.kind = "UnterminatedConditional")
        /\ pp.ret[1].ok =>
              /\ pp.condition_stack = <<>>
              /\ CountDirectives(pp.lines, Len(pp.lines), {KwIfdef, KwIfndef})
                    = CountDirectives(pp.lines, Len(pp.lines), {KwEndif})

\* process met the end of the source inside two open blocks.
C14_Witness ==
    /\ conditionals
    /\ pp.pc = "returned"
    /\ pp.line_num > Len(pp.lines)
    /\ Len(pp.condition_stack) = 2
    /\ Failed(pp)
    /\ pp.ret[1].error.kind = "UnterminatedConditional"

---------------------------------------------------------------------------
(* Claims about the text of emitted lines *)

IsWordChar(c) == is_alphanumeric(c) \/ c = "_"

\* The length of the identifier that text begins with.
RECURSIVE WordLength(_)
WordLength(text) ==
    IF text # <<>> /\ IsWordChar(Head(text)) THEN 1 + WordLength(Tail(text)) ELSE 0

\* The text with every whole identifier that names a macro replaced by the
\* macro's value, itself replaced in the same way.
RECURSIVE Replaced(_, _)
Replaced(table, text) ==
    IF text = <<>> THEN <<>>
    ELSE LET n == WordLength(text) IN
         IF n = 0 THEN <<Head(text)>> \o Replaced(table, Tail(text))
         ELSE LET word == SubSeq(text, 1, n) IN
              (IF is_defined(table, word)
               THEN Replaced(table, macro_value(table, word)[1])
               ELSE word)
              \o Replaced(table, SubSeq(text, n + 1, Len(text)))

\* The text a step of process has added to the output, without its newline.
Added(before, after) == SubSeq(after.result, Len(before.result) + 1, Len(after.result) - 1)

\* C15: the text emitted for a non-directive line is the line with every
\* whole-word occurrence of a macro defined at that line replaced by the
\* macro's recursively expanded value; it contains no defined macro name as a
\* whole identifier.
C15_MacrosReplaced ==
    [][(/\ pp.pc = "lines"
        /\ pp.line_num <= Len(pp.lines)
        /\ IsOrdinary(pp.lines[pp.line_num])
        /\ pp'.emitted = Append(pp.emitted, pp.line_num))
       => /\ pp'.result = pp.result \o Added(pp, pp') \o <<"\n">>
          /\ \A w \in Words(Added(pp, pp')) : ~is_defined(macros, w)
          /\ Added(pp, pp') = Replaced(macros, pp.lines[pp.line_num])]_vars

\* A use of A was replaced through the chain A, B, C by the value of C, and
\* process returned the text.
C15_Witness ==
    /\ pp.pc = "returned"
    /\ pp.ret # <<>>
    /\ pp.ret[1].ok
    /\ macros = {<<NameA, <<"B">>>>, <<NameB, <<"C">>>>, <<NameC, <<"1">>>>}
    /\ pp.ret[1].text = <<"1", "\n">>

---------------------------------------------------------------------------
(* Sources with comments, directives of every kind and inactive sections *)

LineMaxLines == 4

LineLines ==
    {KwDefine \o <<" ", "A", " ", "1">>, <<"#", "x", " ", "A">>, <<"A">>,
     <<"a", "/", "/", "b">>, <<"/", "*">>, <<"*", "/">>,
     KwIfdef \o <<" ", "B">>, KwEndif}

LineInit ==
    /\ ScannerIdle
    /\ TableIdle
    /\ PositionIdle
    /\ \E ls \in SeqsUpTo(LineLines, LineMaxLines) : pp_source = Text(ls)
    /\ preserve \in BOOLEAN
    /\ conditionals = TRUE
    /\ pp = ProcessNew

LineSpec == LineInit /\ [][ProcessNext]_vars

KnownDirectives == {KwDefine, KwUndef, KwIfdef, KwIfndef, KwEndif, KwElse, KwHash}

\* C16: a `#` line that is none of the recognised directives, met in an
\* active section, raises no error and is emitted after macro expansion: the
\* text added to the output is the line with its macro names replaced.
C16_UnknownDirectiveExpanded ==
    [][(/\ pp.pc = "lines"
        /\ pp.line_num <= Len(pp.lines)
        /\ ~IsOrdinary(pp.lines[pp.line_num])
        /\ DirectiveWord(pp.lines[pp.line_num]) \notin KnownDirectives
        /\ is_section_active(pp.condition_stack))
       => /\ ~Failed(pp')
          /\ pp'.emitted = Append(pp.emitted, pp.line_num)
          /\ Added(pp, pp') = Replaced(macros, parse_directive(pp.lines[pp.line_num])[1])]_vars

\* The number of line ends of a text.
NewLines(text) == Cardinality({i \in DOMAIN text : text[i] = "\n"})

\* C17: with preserve_line_numbers set, a source line that has just been
\* emitted is the line of the output with the same number, and the output
\* returned has as many lines as the source.
C17_LineNumbersStable ==
    preserve =>
        /\ (/\ pp.pc = "lines"
            /\ pp.emitted # <<>>
            /\ pp.emitted[Len(pp.emitted)] = pp.line_num - 1)
              => NewLines(pp.result) = pp.line_num - 1
        /\ (pp.pc = "returned" /\ pp.ret[1].ok)
              => Len(lines(pp.ret[1].text)) = Len(SourceLines)

---------------------------------------------------------------------------
(* Claims about the tokens' lexemes and positions *)

\* The characters of the source a step of the scanner has consumed.
Consumed(before, after) ==
    SubSeq(before.chars, 1, Len(before.chars) - Len(after.chars))

\* C18: the lexeme of a token is the exact source substring that produced it:
\* the token that an iteration of scan_all appends has as its lexeme the
\* characters the iteration consumed, from some character on up to the last,
\* unchanged.
C18_LexemeIsSourceSubstring ==
    [][(pc = "loop" /\ Len(tokens') > Len(tokens) /\ ~is_eof(tokens'[Len(tokens')]))
       => LET eaten == Consumed(scanner, scanner')
              lexeme == tokens'[Len(tokens')].lexeme
          IN  /\ Len(lexeme) <= Len(eaten)
              /\ lexeme = SubSeq(eaten, Len(eaten) - Len(lexeme) + 1, Len(eaten))]_vars

\* The 1-indexed (line, column) of the character at index i of src.
PositionOf(src, i) ==
    LET ends == {k \in 1..(i - 1) : src[k] = "\n"}
        last == IF ends = {} THEN 0 ELSE CHOOSE k \in ends : \A j \in ends : j <= k
    IN  Position(1 + Cardinality(ends), i - last)

\* C19: the position of a token is the (line, column) of its first character
\* in the source: for the token the last next_token call returned, of the
\* character that lies the lexeme's length before the cursor.
C19_PositionOfFirstCharacter ==
    (/\ results # <<>>
     /\ results[Len(results)].ok
     /\ ~is_eof(results[Len(results)]))
    => results[Len(results)].position
          = PositionOf(source, Len(source) - Len(scanner.chars)
                               - Len(results[Len(results)].lexeme) + 1)

\* C20: the token list of scan_all holds exactly one EndOfFile token, its
\* last element; while the loop runs the list holds none.
C20_OneEndOfFileLast ==
    /\ pc = "loop" => \A i \in DOMAIN tokens : ~is_eof(tokens[i])
    /\ pc = "done" =>
          /\ tokens # <<>>
          /\ is_eof(tokens[Len(tokens)])
          /\ \A i \in 1..(Len(tokens) - 1) : ~is_eof(tokens[i])

\* scan_all has returned two tokens and an error before the EndOfFile token.
C20_Witness ==
    /\ pc = "done"
    /\ Len(tokens) = 3
    /\ errors # <<>>
    /\ is_eof(tokens[3])


---------------------------------------------------------------------------
(* The end of the input, seen by next_token *)

\* C21: once next_token has returned the EndOfFile token, every later
\* next_token call returns that same EndOfFile token again (same kind, same
\* position), never an error and never another token.
C21_EndOfFileIsSticky ==
    [][(/\ results # <<>>
        /\ is_eof(results[Len(results)])
        /\ Len(results') > Len(results))
       => /\ Len(results') = Len(results) + 1
          /\ is_eof(results'[Len(results')])
          /\ results'[Len(results')] = results[Len(results)]]_vars

\* A source with a token in it was read to its end, and next_token was
\* called twice more.
C21_Witness ==
    /\ Len(results) >= 3
    /\ ~is_eof(results[1])
    /\ is_eof(results[Len(results) - 1])
    /\ is_eof(results[Len(results)])


---------------------------------------------------------------------------
(* A caller of next_token and peek_token on numeric texts *)

NumberMaxLen == 4

NumberAlphabet == {"-", "0", "7", ".", "a"}

\* The leading digits of the literals around the ends of the i32 range.
NumberStems ==
    {<<"2", "1", "4", "7", "4", "8", "3", "6", "4">>,
     <<"0", "2", "1", "4", "7", "4", "8", "3", "6", "4">>,
     <<"2", "1", "4", "7", "4", "8", "3", "6", "4", "7">>}

NumberSources ==
    SeqsUpTo(NumberAlphabet, NumberMaxLen)
    \cup {sign \o stem \o <<d>> : sign \in {<<>>, <<"-">>}, stem \in NumberStems,
                                  d \in {"0", "7", "8", "9"}}

NumberInit ==
    /\ source \in NumberSources
    /\ scanner = ScannerNew(source)
    /\ tokens = <<>>
    /\ errors = <<>>
    /\ pc = "idle"
    /\ results = <<>>
    /\ peeked = <<>>
    /\ TableIdle
    /\ PositionIdle
    /\ PPIdle

NumberSpec == NumberInit /\ [][TokenNext]_vars

---------------------------------------------------------------------------
(* Claims about numeric literals *)

\* A text that is an optional '-' followed by one or more digits.
IsIntegerText(text) ==
    LET body == IF text # <<>> /\ Head(text) = "-" THEN Tail(text) ELSE text
    IN  body # <<>> /\ \A i \in 1..Len(body) : body[i] \in Digits

RECURSIVE StripZeros(_)
StripZeros(ds) ==
    IF Len(ds) > 1 /\ Head(ds) = "0" THEN StripZeros(Tail(ds)) ELSE ds

\* a <= b for digit strings of the same length
RECURSIVE DigitsLeq(_, _)
DigitsLeq(a, b) ==
    IF a = <<>> THEN TRUE
    ELSE IF DigitVal(Head(a)) < DigitVal(Head(b)) THEN TRUE
    ELSE IF DigitVal(Head(a)) > DigitVal(Head(b)) THEN FALSE
    ELSE DigitsLeq(Tail(a), Tail(b))

\* Whether the decimal value of an integer text lies in [-2147483648, 2147483647].
InI32Range(text) ==
    LET negative == Head(text) = "-"
        ds == StripZeros(IF negative THEN Tail(text) ELSE text)
        most == IF negative
                THEN <<"2", "1", "4", "7", "4", "8", "3", "6", "4", "8">>
                ELSE <<"2", "1", "4", "7", "4", "8", "3", "6", "4", "7">>
    IN  Len(ds) < 10 \/ (Len(ds) = 10 /\ DigitsLeq(ds, most))

\* The decimal value of the digits ds, negated when sign = -1.
RECURSIVE SignedValue(_, _, _)
SignedValue(ds, sign, acc) ==
    IF ds = <<>> THEN acc
    ELSE SignedValue(Tail(ds), sign, acc * 10 + sign * DigitVal(Head(ds)))

ExactValue(text) ==
    IF Head(text) = "-" THEN SignedValue(Tail(text), -1, 0)
    ELSE SignedValue(text, 1, 0)

\* C22: a decimal integer literal, optionally preceded directly by '-',
\* scans to one IntLiteral carrying its exact value if and only if the
\* value lies in [-2147483648, 2147483647]; outside that range the scan
\* gives exactly one InvalidNumber error and no IntLiteral. After the
\* literal only EndOfFile follows.
C22_IntLiteralIffInRange ==
    (IsIntegerText(source) /\ results # <<>>) =>
        /\ IF InI32Range(source)
           THEN /\ results[1].ok
                /\ results[1].kind = "IntLiteral"
                /\ results[1].lexeme = source
                /\ results[1].value = ExactValue(source)
           ELSE /\ ~results[1].ok
                /\ results[1].kind = "InvalidNumber"
        /\ \A i \in 2..Len(results) : is_eof(results[i])

\* The smallest i32 was scanned to its value, and the end of the input
\* followed.
C22_Witness ==
    /\ Len(results) = 2
    /\ IsIntegerText(source)
    /\ results[1].ok
    /\ results[1].value = I32_MIN
    /\ is_eof(results[2])

RECURSIVE DropWhitespace(_)
DropWhitespace(chars) ==
    IF chars # <<>> /\ is_whitespace(Head(chars)) THEN DropWhitespace(Tail(chars))
    ELSE chars

\* The next token starts at a '-' that is immediately followed by a digit.
AtMinusDigit(chars) ==
    LET c == DropWhitespace(chars) IN
    Len(c) >= 2 /\ c[1] = "-" /\ c[2] \in Digits

\* The characters of a lexeme that are digits are all zeros.
AllZeros(lexeme) ==
    \A i \in 1..Len(lexeme) : lexeme[i] \in Digits => lexeme[i] = "0"

\* C23, as stated: whenever a '-' is immediately followed by a digit,
\* next_token returns one numeric literal token whose lexeme begins with
\* '-' and whose value is negative, whatever precedes the '-'.
C23_MinusDigitIsNegativeLiteral ==
    [][(AtMinusDigit(scanner.chars) /\ Len(results') = Len(results) + 1)
       => LET r == results'[Len(results')] IN
          /\ r.ok
          /\ r.kind \in {"IntLiteral", "FloatLiteral"}
          /\ Head(r.lexeme) = "-"
          /\ r.value < 0]_vars

\* C23, amended: whenever a '-' is immediately followed by a digit,
\* next_token scans the '-' as part of the number, whatever precedes it:
\* it returns either one numeric literal token whose lexeme begins with
\* '-' and whose value is negative, or zero when all its digits are zeros,
\* or an InvalidNumber error whose lexeme begins with '-'; it never returns
\* a Minus or MinusEq token for that '-'.
C23_MinusDigitIsPartOfNumber ==
    [][(AtMinusDigit(scanner.chars) /\ Len(results') = Len(results) + 1)
       => LET r == results'[Len(results')] IN
          /\ r.lexeme # <<>> /\ Head(r.lexeme) = "-"
          /\ Len(r.lexeme) >= 2 /\ r.lexeme[2] \in Digits
          /\ IF r.ok
             THEN /\ r.kind \in {"IntLiteral", "FloatLiteral"}
                  /\ r.value <= 0
                  /\ (r.value = 0) <=> AllZeros(r.lexeme)
             ELSE r.kind = "InvalidNumber"]_vars

\* `7-7` was scanned: the operand 7, then the literal -7.
C23_Witness ==
    /\ Len(source) = 3
    /\ Len(results) = 2
    /\ results[1].ok /\ results[1].kind = "IntLiteral" /\ results[1].value > 0
    /\ results[2].ok /\ results[2].kind = "IntLiteral" /\ results[2].value < 0
    /\ Head(results[2].lexeme) = "-"

\* The text without a leading '-'.
Unsigned(text) == IF text # <<>> /\ Head(text) = "-" THEN Tail(text) ELSE text

\* The number of '.' in a text.
Dots(text) == Cardinality({i \in 1..Len(text) : text[i] = "."})

\* A text of digits and '.' only, optionally preceded by '-'.
IsNumericText(text) ==
    /\ Unsigned(text) # <<>>
    /\ \A i \in 1..Len(Unsigned(text)) : Unsigned(text)[i] \in Digits \cup {"."}

\* digits '.' digits, optionally preceded by '-'
IsFloatText(text) ==
    /\ IsNumericText(text)
    /\ Dots(text) = 1
    /\ Head(Unsigned(text)) # "."
    /\ text[Len(text)] # "."

\* The text starts with a number ([-]digits) whose '.' has no digit after it.
DotWithoutDigit(text) ==
    \E k \in 2..Len(text) :
        /\ text[k] = "."
        /\ IsIntegerText(SubSeq(text, 1, k - 1))
        /\ (k = Len(text) \/ text[k + 1] \notin Digits)

\* C24: digits '.' digits, optionally preceded by '-', scans to exactly one
\* FloatLiteral with no error; a number whose '.' is not followed by a
\* digit fails with InvalidNumber; a numeric text that starts with '.' or
\* has a second '.' produces at least one error.
C24_FloatLiterals ==
    /\ (IsFloatText(source) /\ results # <<>>) =>
           /\ results[1].ok
           /\ results[1].kind = "FloatLiteral"
           /\ results[1].lexeme = source
           /\ results[1].scale = Len(source) - index_of(source, ".", 1)
           /\ \A i \in 2..Len(results) : is_eof(results[i])
    /\ (DotWithoutDigit(source) /\ results # <<>>) =>
           /\ ~results[1].ok
           /\ results[1].kind = "InvalidNumber"
    /\ (/\ IsNumericText(source)
        /\ Head(Unsigned(source)) = "." \/ Dots(source) >= 2
        /\ results # <<>>
        /\ is_eof(results[Len(results)])) =>
           \E i \in 1..Len(results) : ~results[i].ok

\* A negative float was scanned to one FloatLiteral and the end of the
\* input followed.
C24_Witness ==
    /\ IsFloatText(source)
    /\ Head(source) = "-"
    /\ Len(results) = 2
    /\ results[1].kind = "FloatLiteral"
    /\ results[1].value < 0
    /\ is_eof(results[2])


---------------------------------------------------------------------------
(* A caller of next_token and peek_token on texts with string literals *)

StringMaxLen == 4

StringAlphabet == {"\"", "\\", "\n", "a", "/", "*"}

StringInit ==
    /\ source \in SeqsUpTo(StringAlphabet, StringMaxLen)
    /\ scanner = ScannerNew(source)
    /\ tokens = <<>>
    /\ errors = <<>>
    /\ pc = "idle"
    /\ results = <<>>
    /\ peeked = <<>>
    /\ TableIdle
    /\ PositionIdle
    /\ PPIdle

StringSpec == StringInit /\ [][TokenNext]_vars

---------------------------------------------------------------------------
(* Claims about string literals *)

\* Whether the text after an opening quote reaches a closing quote: a
\* character after a backslash is passed over, an unescaped newline or the
\* end of the input ends the search.
RECURSIVE Closes(_)
Closes(rest) ==
    IF rest = <<>> THEN FALSE
    ELSE IF Head(rest) = "\"" THEN TRUE
    ELSE IF Head(rest) = "\n" THEN FALSE
    ELSE IF Head(rest) = "\\"
         THEN Len(rest) >= 2 /\ Closes(SubSeq(rest, 3, Len(rest)))
    ELSE Closes(Tail(rest))

\* C25: a string literal that meets an unescaped newline or the end of
\* input before its closing quote yields an UnterminatedString error whose
\* position is the position of the opening quote; a newline or quote after
\* a backslash does not end the literal, so that a literal that closes
\* after them is a StringLiteral token.
C25_UnterminatedStringAtQuote ==
    [][(/\ DropWhitespace(scanner.chars) # <<>>
        /\ Head(DropWhitespace(scanner.chars)) = "\""
        /\ Len(results') = Len(results) + 1)
       => LET rest == DropWhitespace(scanner.chars)
              r == results'[Len(results')]
          IN  IF Closes(Tail(rest))
              THEN r.ok /\ r.kind = "StringLiteral"
              ELSE /\ ~r.ok
                   /\ r.kind = "UnterminatedString"
                   /\ r.position
                         = PositionOf(source, Len(source) - Len(rest) + 1)]_vars


---------------------------------------------------------------------------
(* A caller of next_token and peek_token on texts with one identifier *)

\* Lengths up to IdentShort, and those within IdentSlack of the maximal one.
IdentShort == 3

IdentSlack == 2

IdentLengths ==
    1..IdentShort \cup (MaxIdentifierLen - IdentSlack)..(MaxIdentifierLen + IdentSlack)

\* A run of n identifier characters: first, then a and b in turn.
IdentRun(first, a, b, n) ==
    [i \in 1..n |-> IF i = 1 THEN first ELSE IF i % 2 = 0 THEN a ELSE b]

IdentSources ==
    {before \o IdentRun(first, a, b, n) \o after :
        before \in {<<>>, <<" ">>, <<";">>},
        first \in {"a", "_"},
        a \in {"a", "1"},
        b \in {"_", "Z"},
        n \in IdentLengths,
        after \in {<<>>, <<" ">>, <<"@">>}}

IdentInit ==
    /\ source \in IdentSources
    /\ scanner = ScannerNew(source)
    /\ tokens = <<>>
    /\ errors = <<>>
    /\ pc = "idle"
    /\ results = <<>>
    /\ peeked = <<>>
    /\ TableIdle
    /\ PositionIdle
    /\ PPIdle

IdentSpec == IdentInit /\ [][TokenNext]_vars

---------------------------------------------------------------------------
(* Claims about identifiers *)

IsIdentChar(c) == c \in Letters \cup Digits \cup {"_"}

\* The length of the longest prefix of chars made of identifier characters.
RunLength(chars) ==
    LET stops == {i \in 1..Len(chars) : ~IsIdentChar(chars[i])}
    IN  IF stops = {} THEN Len(chars)
        ELSE (CHOOSE i \in stops : \A j \in stops : i <= j) - 1

\* The next token starts a maximal run of identifier characters whose
\* first character is a letter or an underscore.
AtIdentifier(src, chars) ==
    LET rest == DropWhitespace(chars)
        at == Len(src) - Len(rest)
    IN  /\ rest # <<>>
        /\ Head(rest) \in Letters \cup {"_"}
        /\ at > 0 => ~IsIdentChar(src[at])

\* C26: a maximal run of ASCII letters, digits and underscores that starts
\* with a letter or underscore scans to an Identifier (or keyword) token
\* whose lexeme is the run when the run has at most 255 characters, and
\* fails with IdentifierTooLong when it has 256 or more; the whole run is
\* consumed either way, so that no identifier token comes of a long run.
C26_IdentifierLength ==
    [][(AtIdentifier(source, scanner.chars) /\ Len(results') = Len(results) + 1)
       => LET rest == DropWhitespace(scanner.chars)
              n == RunLength(rest)
              r == results'[Len(results')]
          IN  /\ scanner'.chars = SubSeq(rest, n + 1, Len(rest))
              /\ IF n <= 255
                 THEN /\ r.ok
                      /\ r.lexeme = SubSeq(rest, 1, n)
                      /\ r.kind = "Identifier" \/ r.kind = keyword(r.lexeme).kind
                 ELSE /\ ~r.ok
                      /\ r.kind = "IdentifierTooLong"]_vars

\* A run of 256 characters was refused, and the text after it scanned
\* without an identifier token.
C26_Witness ==
    /\ Len(source) = 257
    /\ Len(results) = 3
    /\ ~results[1].ok /\ results[1].kind = "IdentifierTooLong"
    /\ ~results[2].ok
    /\ is_eof(results[3])


---------------------------------------------------------------------------
(* A caller of next_token and peek_token on keywords and their lookalikes *)

\* The words the match of scan_identifier_or_keyword names.
KeywordWords ==
    {<<"i", "f">>, <<"e", "l", "s", "e">>, <<"w", "h", "i", "l", "e">>,
     <<"f", "o", "r">>, <<"i", "n", "t">>, <<"f", "l", "o", "a", "t">>,
     <<"b", "o", "o", "l">>, <<"r", "e", "t", "u", "r", "n">>,
     <<"t", "r", "u", "e">>, <<"f", "a", "l", "s", "e">>,
     <<"v", "o", "i", "d">>, <<"s", "t", "r", "u", "c", "t">>, <<"f", "n">>}

Upper ==
    [c \in {"i", "e", "w", "f", "b", "r", "t", "v", "s"} |->
        CASE c = "i" -> "I" [] c = "e" -> "E" [] c = "w" -> "W"
          [] c = "f" -> "F" [] c = "b" -> "B" [] c = "r" -> "R"
          [] c = "t" -> "T" [] c = "v" -> "V" [] c = "s" -> "S"]

\* A word, the word in another case, cut short, and made longer.
KeywordVariants(w) ==
    {w,
     [w EXCEPT ![1] = Upper[@]],
     [w EXCEPT ![Len(w)] = Upper[w[1]]],
     SubSeq(w, 1, Len(w) - 1),
     w \o <<"s">>,
     w \o <<"1">>,
     w \o <<"_">>,
     <<"_">> \o w,
     w \o w}

KeywordSources ==
    UNION {UNION {{v, v \o <<" ">> \o u, v \o <<";">>} : v \in KeywordVariants(w)} :
              w \in KeywordWords, u \in KeywordWords}

KeywordInit ==
    /\ source \in KeywordSources
    /\ scanner = ScannerNew(source)
    /\ tokens = <<>>
    /\ errors = <<>>
    /\ pc = "idle"
    /\ results = <<>>
    /\ peeked = <<>>
    /\ TableIdle
    /\ PositionIdle
    /\ PPIdle

KeywordSpec == KeywordInit /\ [][TokenNext]_vars

---------------------------------------------------------------------------
(* Claims about keywords *)

\* The keyword table of the language: the token kind of each keyword.
KeywordTable ==
    [w \in KeywordWords \ {<<"t", "r", "u", "e">>, <<"f", "a", "l", "s", "e">>} |->
        CASE w = <<"i", "f">> -> "KwIf"
          [] w = <<"e", "l", "s", "e">> -> "KwElse"
          [] w = <<"w", "h", "i", "l", "e">> -> "KwWhile"
          [] w = <<"f", "o", "r">> -> "KwFor"
          [] w = <<"i", "n", "t">> -> "KwInt"
          [] w = <<"f", "l", "o", "a", "t">> -> "KwFloat"
          [] w = <<"b", "o", "o", "l">> -> "KwBool"
          [] w = <<"r", "e", "t", "u", "r", "n">> -> "KwReturn"
          [] w = <<"v", "o", "i", "d">> -> "KwVoid"
          [] w = <<"s", "t", "r", "u", "c", "t">> -> "KwStruct"
          [] w = <<"f", "n">> -> "KwFn"]

\* C27: an identifier-shaped lexeme is classified by exact, case-sensitive
\* match against the keyword table: each keyword yields its keyword token,
\* `true` and `false` yield BoolLiteral (with their value, never KwTrue or
\* KwFalse), and every other lexeme, also one that only has a keyword as a
\* prefix, yields Identifier.
C27_KeywordsByExactMatch ==
    (AtIdentifier(source, source) /\ results # <<>>) =>
        LET w == SubSeq(source, 1, RunLength(source))
            r == results[1]
        IN  /\ r.ok
            /\ r.lexeme = w
            /\ r.kind \notin {"KwTrue", "KwFalse"}
            /\ IF w \in DOMAIN KeywordTable THEN r.kind = KeywordTable[w]
               ELSE IF w = <<"t", "r", "u", "e">>
                    THEN r.kind = "BoolLiteral" /\ r.value = 1
               ELSE IF w = <<"f", "a", "l", "s", "e">>
                    THEN r.kind = "BoolLiteral" /\ r.value = 0
               ELSE r.kind = "Identifier" /\ r.content = w

\* `true` was scanned to a BoolLiteral, a keyword after it to its token.
C27_Witness ==
    /\ Len(results) = 3
    /\ results[1].kind = "BoolLiteral" /\ results[1].value = 1
    /\ results[2].kind = "KwStruct"
    /\ is_eof(results[3])


---------------------------------------------------------------------------
(* A caller of scan_all on delimiters and operators *)

OperatorMaxLen == 2

\* The characters of the delimiter and operator arms of next_token.
OperatorAlphabet ==
    {"(", ")", "{", "}", "[", "]", ";", ",", ":",
     "+", "-", "*", "/", "%", "=", "!", "<", ">", "&", "|"}

OperatorInit ==
    /\ source \in SeqsUpTo(OperatorAlphabet, OperatorMaxLen)
    /\ scanner = ScannerNew(source)
    /\ tokens = <<>>
    /\ errors = <<>>
    /\ pc = "idle"
    /\ results = <<>>
    /\ peeked = <<>>
    /\ TableIdle
    /\ PositionIdle
    /\ PPIdle

OperatorSpec == OperatorInit /\ [][ScanAllNext]_vars

---------------------------------------------------------------------------
(* Claims about delimiters and operators *)

\* The lexemes of the delimiters and operators, and the kind of each.
OperatorLexemes ==
    {<<"(">>, <<")">>, <<"{">>, <<"}">>, <<"[">>, <<"]">>, <<";">>, <<",">>,
     <<":">>, <<"+">>, <<"-">>, <<"*">>, <<"/">>, <<"%">>, <<"=", "=">>,
     <<"!", "=">>, <<"<">>, <<"<", "=">>, <<">">>, <<">", "=">>,
     <<"&", "&">>, <<"|", "|">>, <<"!">>, <<"=">>, <<"+", "=">>,
     <<"-", "=">>, <<"*", "=">>, <<"/", "=">>}

OperatorKind(l) ==
    CASE l = <<"(">> -> "LParen" [] l = <<")">> -> "RParen"
      [] l = <<"{">> -> "LBrace" [] l = <<"}">> -> "RBrace"
      [] l = <<"[">> -> "LBracket" [] l = <<"]">> -> "RBracket"
      [] l = <<";">> -> "Semicolon" [] l = <<",">> -> "Comma"
      [] l = <<":">> -> "Colon"
      [] l = <<"+">> -> "Plus" [] l = <<"-">> -> "Minus"
      [] l = <<"*">> -> "Asterisk" [] l = <<"/">> -> "Slash"
      [] l = <<"%">> -> "Percent"
      [] l = <<"=", "=">> -> "EqEq" [] l = <<"!", "=">> -> "BangEq"
      [] l = <<"<">> -> "Lt" [] l = <<"<", "=">> -> "LtEq"
      [] l = <<">">> -> "Gt" [] l = <<">", "=">> -> "GtEq"
      [] l = <<"&", "&">> -> "AmpAmp" [] l = <<"|", "|">> -> "PipePipe"
      [] l = <<"!">> -> "Bang" [] l = <<"=">> -> "Eq"
      [] l = <<"+", "=">> -> "PlusEq" [] l = <<"-", "=">> -> "MinusEq"
      [] l = <<"*", "=">> -> "AsteriskEq" [] l = <<"/", "=">> -> "SlashEq"

\* C28: scanning a delimiter or operator lexeme alone yields exactly one
\* token of the matching kind whose lexeme is the whole input (a
\* two-character operator is never split), followed by EndOfFile, with no
\* error.
C28_OperatorAlone ==
    source \in OperatorLexemes =>
        /\ errors = <<>>
        /\ pc = "loop" => Len(tokens) <= 1
        /\ tokens # <<>> =>
              /\ tokens[1].kind = OperatorKind(source)
              /\ tokens[1].lexeme = source
              /\ tokens[1].position = PositionStart
        /\ pc = "done" => Len(tokens) = 2 /\ is_eof(tokens[2])

\* A two-character operator was scanned to one token and EndOfFile.
C28_Witness ==
    /\ pc = "done"
    /\ source \in OperatorLexemes
    /\ Len(source) = 2
    /\ Len(tokens) = 2
    /\ tokens[1].lexeme = source


---------------------------------------------------------------------------
(* process on sources with directives that lack their argument *)

BareMaxLines == 3

BareLines ==
    {KwDefine, KwUndef, KwIfdef, KwIfndef,
     <<" ">> \o KwUndef \o <<" ">>,
     KwDefine \o <<" ", "A", " ", "1">>,
     KwIfdef \o <<" ", "B">>,
     <<"A">>}

BareInit ==
    /\ ScannerIdle
    /\ TableIdle
    /\ PositionIdle
    /\ \E ls \in SeqsUpTo(BareLines, BareMaxLines) : pp_source = Text(ls)
    /\ preserve = TRUE
    /\ conditionals \in BOOLEAN
    /\ pp = ProcessNew

BareSpec == BareInit /\ [][ProcessNext]_vars

---------------------------------------------------------------------------
(* Claims about directives without a name *)

\* The loop of process is at a line that is one of the given directive
\* keywords and nothing else.
AtBareDirective(keywords) ==
    /\ pp.pc = "lines"
    /\ pp.line_num <= Len(pp.lines)
    /\ \E kw \in keywords : split_whitespace(pp.lines[pp.line_num]) = <<kw>>

\* process fails at this step with InvalidDirective at the line, and the
\* macro table and the condition stack are as before.
FailsInvalidDirective ==
    /\ Failed(pp')
    /\ pp'.pc = "returned"
    /\ pp'.ret[1].error.kind = "InvalidDirective"
    /\ pp'.ret[1].error.position = <<Position(pp.line_num, 1)>>
    /\ macros' = macros
    /\ pp'.condition_stack = pp.condition_stack

\* C29, as stated: a `#define`, `#undef`, `#ifdef` or `#ifndef` line that
\* has no name argument makes process fail with InvalidDirective, and the
\* macro table and condition stack are not changed by that line.
C29_BareDirectiveFails ==
    [][(AtBareDirective({KwDefine, KwUndef, KwIfdef, KwIfndef}) /\ pp' # pp)
       => FailsInvalidDirective]_vars

\* C29, amended: a `#define` or `#undef` line without a name, and, while
\* conditional directives are enabled (the default), a `#ifdef` or `#ifndef`
\* line without a name, makes process fail with InvalidDirective; with
\* conditional directives disabled a `#ifdef` or `#ifndef` line without a
\* name is skipped and process goes on. In every case the macro table and
\* the condition stack are not changed by that line.
C29_BareDirectiveFailsWhenEnabled ==
    [][/\ (/\ \/ AtBareDirective({KwDefine, KwUndef})
              \/ AtBareDirective({KwIfdef, KwIfndef}) /\ conditionals
           /\ pp' # pp)
          => FailsInvalidDirective
       /\ (AtBareDirective({KwIfdef, KwIfndef}) /\ ~conditionals /\ pp' # pp)
          => /\ pp'.ret = <<>>
             /\ pp'.line_num = pp.line_num + 1
             /\ pp'.result = pp.result
             /\ macros' = macros
             /\ pp'.condition_stack = pp.condition_stack]_vars

\* process failed at a `#ifdef` without a name, inside an open conditional
\* and with a macro defined.
C29_Witness ==
    /\ Failed(pp)
    /\ pp.ret[1].error.kind = "InvalidDirective"
    /\ pp.line_num = 3
    /\ split_whitespace(pp.lines[3]) = <<KwIfdef>>
    /\ pp.condition_stack # <<>>
    /\ macros # {}


---------------------------------------------------------------------------
(* process on sources of quotes, backslashes and comment marks *)

StripMaxLen == 5

StripAlphabet == {"\"", "'", "\\", "/", "*", "\n"}

StripInit ==
    /\ ScannerIdle
    /\ TableIdle
    /\ PositionIdle
    /\ pp_source \in SeqsUpTo(StripAlphabet, StripMaxLen)
    /\ preserve \in BOOLEAN
    /\ conditionals = TRUE
    /\ pp = ProcessNew

StripSpec == StripInit /\ [][ProcessNext]_vars

---------------------------------------------------------------------------
(* Claims about comment stripping *)

\* What is left of a text when its comments are taken out, read from the
\* text in `mode`: "code", inside a "string" or a "char" literal, inside a
\* "line" or a "block" comment. A backslash inside a literal takes the next
\* character with it. The newline that ends a line comment is kept; a
\* newline inside a block comment is kept when keep_lines.
RECURSIVE WithoutComments(_, _, _)
WithoutComments(keep_lines, chars, mode) ==
    IF chars = <<>> THEN <<>>
    ELSE
    LET c == Head(chars)
        rest == Tail(chars)
        two == IF Len(chars) >= 2 THEN SubSeq(chars, 1, 2) ELSE chars
        after == SubSeq(chars, 3, Len(chars))
    IN  CASE mode = "code" ->
               IF two = <<"/", "/">> THEN WithoutComments(keep_lines, after, "line")
               ELSE IF two = <<"/", "*">> THEN WithoutComments(keep_lines, after, "block")
               ELSE <<c>> \o WithoutComments(keep_lines, rest,
                                 IF c = "\"" THEN "string"
                                 ELSE IF c = "'" THEN "char" ELSE "code")
          [] mode \in {"string", "char"} ->
               IF c = "\\" THEN two \o WithoutComments(keep_lines, after, mode)
               ELSE <<c>> \o WithoutComments(keep_lines, rest,
                                 IF c = (IF mode = "string" THEN "\"" ELSE "'")
                                 THEN "code" ELSE mode)
          [] mode = "line" ->
               IF c = "\n" THEN <<c>> \o WithoutComments(keep_lines, rest, "code")
               ELSE WithoutComments(keep_lines, rest, "line")
          [] mode = "block" ->
               IF two = <<"*", "/">> THEN WithoutComments(keep_lines, after, "code")
               ELSE (IF c = "\n" /\ keep_lines THEN <<c>> ELSE <<>>)
                    \o WithoutComments(keep_lines, rest, "block")

\* Whether the text ends inside a block comment.
RECURSIVE EndsInBlockComment(_, _)
EndsInBlockComment(chars, mode) ==
    IF chars = <<>> THEN mode = "block"
    ELSE
    LET c == Head(chars)
        rest == Tail(chars)
        two == IF Len(chars) >= 2 THEN SubSeq(chars, 1, 2) ELSE chars
        after == SubSeq(chars, 3, Len(chars))
    IN  CASE mode = "code" ->
               IF two = <<"/", "/">> THEN EndsInBlockComment(after, "line")
               ELSE IF two = <<"/", "*">> THEN EndsInBlockComment(after, "block")
               ELSE EndsInBlockComment(rest, IF c = "\"" THEN "string"
                                             ELSE IF c = "'" THEN "char" ELSE "code")
          [] mode \in {"string", "char"} ->
               IF c = "\\" THEN EndsInBlockComment(after, mode)
               ELSE EndsInBlockComment(rest,
                        IF c = (IF mode = "string" THEN "\"" ELSE "'")
                        THEN "code" ELSE mode)
          [] mode = "line" ->
               EndsInBlockComment(rest, IF c = "\n" THEN "code" ELSE "line")
          [] mode = "block" ->
               IF two = <<"*", "/">> THEN EndsInBlockComment(after, "code")
               ELSE EndsInBlockComment(rest, "block")

\* A text without the blanks that stand for the characters of a comment.
NoBlanks(text) == SelectSeq(text, LAMBDA c : c # " ")

\* C30: comment stripping removes exactly the comments: the text of a `//`
\* comment up to the end of line and of a `/* */` comment outside string
\* and character literals is not in the output (blanks stand for it when
\* line numbers are preserved), and everything else, also `//` and `/*`
\* inside a double-quoted string and after an escaped quote in it, is kept
\* verbatim. Stated of the result of the stripping and of the lines that
\* process goes on with.
C30_ExactlyCommentsRemoved ==
    pp.pc # "idle" =>
        LET r == remove_comments_from_whole_source(preserve, pp_source, Position(1, 1))
            kept == WithoutComments(preserve, pp_source, "code")
        IN  IF EndsInBlockComment(pp_source, "code")
            THEN r.err # <<>> /\ Failed(pp)
            ELSE /\ r.err = <<>>
                 /\ NoBlanks(r.text) = kept
                 /\ ~preserve => r.text = kept
                 /\ pp.lines = lines(r.text)

\* The text `"\"//` was stripped: the `//` after the escaped quote is in
\* the line that process goes on with.
C30_Witness ==
    /\ pp.pc = "lines"
    /\ pp_source = <<"\"", "\\", "\"", "/", "/">>
    /\ pp.lines = <<pp_source>>

----------------------------------------------------------------------------
(* Position: a caller applies the five operations to a valid Position.     *)
(* The additions are plain `+` on usize: a build with overflow checks      *)
(* panics when the sum leaves usize, a build without them wraps.           *)

PositionMaxOps == 3

PositionOffsets == {0, 1, 2, USIZE_MAX}

PositionStarts == {Position(l, c) : l \in {1, USIZE_MAX}, c \in {1, 2, USIZE_MAX}}

PositionInit ==
    /\ ScannerIdle
    /\ TableIdle
    /\ PPIdle
    /\ \E checks \in BOOLEAN, p \in PositionStarts :
           positions = [overflow_checks |-> checks, panicked |-> FALSE, made |-> <<p>>]

(* the value the operations act on: the one made last *)
PositionNow == positions.made[Len(positions.made)]

(* an operation whose sum is a + b returns result, or panics *)
PositionMade(a, b, result) ==
    /\ ~positions.panicked
    /\ Len(positions.made) < PositionMaxOps + 1
    /\ positions' = IF positions.overflow_checks /\ overflows(a, b)
                     THEN [positions EXCEPT !.panicked = TRUE]
                     ELSE [positions EXCEPT !.made = Append(@, result)]
    /\ UNCHANGED <<scan_vars, table_vars, pp_vars>>

PositionOp ==
    \/ \E by \in PositionOffsets :
           PositionMade(PositionNow.column, by, advance_column(PositionNow, by))
    \/ PositionMade(PositionNow.line, 1, new_line(PositionNow))
    \/ \E offset \in PositionOffsets :
           PositionMade(PositionNow.column, offset, with_column_offset(PositionNow, offset))
    \/ \E rhs \in PositionOffsets :
           PositionMade(PositionNow.column, rhs, add(PositionNow, rhs))
    \/ \E rhs \in PositionOffsets :
           PositionMade(0, 0, sub(PositionNow, rhs))

PositionSpec == PositionInit /\ [][PositionOp]_vars

(* C31: starting from a Position with line >= 1 and column >= 1, every     *)
(* sequence of advance_column, new_line, with_column_offset, + n and - n   *)
(* yields a Position with line >= 1 and column >= 1.                       *)
C31_PositionsStayValid ==
    \A i \in 1..Len(positions.made) : is_valid(positions.made[i])

----------------------------------------------------------------------------
(* C32: every token next_token or peek_token returns has a non-empty       *)
(* lexeme unless its kind is EndOfFile, and the EndOfFile token has an     *)
(* empty lexeme.                                                           *)

Returned == {results[i] : i \in 1..Len(results)} \cup {peeked[i] : i \in 1..Len(peeked)}

C32_LexemeEmptyOnlyAtEndOfFile ==
    \A r \in Returned : r.ok => (r.lexeme = <<>> <=> r.kind = "EndOfFile")

(* a source with blanks and a comment has given a token and then EndOfFile *)
C32_Witness ==
    /\ \E i \in 1..Len(source) : is_whitespace(source[i])
    /\ Len(results) >= 2
    /\ results[1].ok /\ ~is_eof(results[1])
    /\ is_eof(results[Len(results)])
    /\ results[Len(results)].lexeme = <<>>

----------------------------------------------------------------------------
(* process on sources of comment marks and a letter: block comments with   *)
(* comment marks inside them and text after them                           *)

NestMaxLen == 8

NestAlphabet == {"/", "*", "a"}

NestInit ==
    /\ ScannerIdle
    /\ TableIdle
    /\ PositionIdle
    /\ pp_source \in SeqsUpTo(NestAlphabet, NestMaxLen)
    /\ preserve \in BOOLEAN
    /\ conditionals = TRUE
    /\ pp = ProcessNew

NestSpec == NestInit /\ [][ProcessNext]_vars

\* The index of the `*` of the first `*/` of src at or after index i; 0 if none.
FirstClose(src, i) ==
    LET closes == {k \in i..(Len(src) - 1) : src[k] = "*" /\ src[k + 1] = "/"}
    IN  IF closes = {} THEN 0 ELSE CHOOSE k \in closes : \A j \in closes : k <= j

\* src[i] is the first `/` of src, outside any literal, and opens a block comment.
OpensFirstComment(src, i) ==
    /\ i + 1 <= Len(src)
    /\ src[i] = "/" /\ src[i + 1] = "*"
    /\ \A k \in 1..(i - 1) : src[k] \notin {"/", "\"", "'"}

\* What stands for the comment src[i..j] in the output.
CommentBlanks(keep_lines, src, i, j) ==
    IF keep_lines
    THEN [k \in 1..(j - i + 1) |-> IF src[i + k - 1] = "\n" THEN "\n" ELSE " "]
    ELSE <<>>

FirstCloseEndsComment(keep_lines, src, i, whole, p) ==
    LET j == FirstClose(src, i + 2) IN
    IF j = 0 THEN whole.err # <<>> /\ Failed(p)
    ELSE \E rest \in {remove_comments_from_whole_source(
                          keep_lines, SubSeq(src, j + 2, Len(src)), Position(1, 1))} :
             /\ (whole.err = <<>>) <=> (rest.err = <<>>)
             /\ whole.err = <<>> =>
                    /\ whole.text = SubSeq(src, 1, i - 1)
                                    \o CommentBlanks(keep_lines, src, i, j + 1)
                                    \o rest.text
                    /\ p.lines = lines(whole.text)

\* C33: the stripper's block comments are single-level: a comment that opens
\* in code ends at the first `*/` after its `/*`, however many `/*` lie in
\* between, and what follows is stripped as a text of its own (ordinary
\* source again).
C33_FirstCloseEndsComment ==
    pp.pc # "idle" =>
        \A i \in 1..Len(pp_source) :
            OpensFirstComment(pp_source, i) =>
                FirstCloseEndsComment(preserve, pp_source, i,
                    remove_comments_from_whole_source(preserve, pp_source, Position(1, 1)),
                    pp)

\* `/*/**/*/` was processed: the comment ended at the first `*/` and the
\* second `*/` is in the output.
C33_Witness ==
    /\ pp_source = <<"/", "*", "/", "*", "*", "/", "*", "/">>
    /\ pp.pc = "returned"
    /\ ~Failed(pp)
    /\ \E i \in 1..Len(pp.ret[1].text) : pp.ret[1].text[i] = "*"

----------------------------------------------------------------------------
(* Claims about MacroTable.expand *)

\* The characters of an identifier, as the text of a macro name has them.
NameChar(c) == c \in Letters \cup Digits \cup {"_"}

\* The length of the run of identifier characters that text begins with.
RECURSIVE NameRun(_)
NameRun(text) == IF text # <<>> /\ NameChar(Head(text)) THEN 1 + NameRun(Tail(text)) ELSE 0

\* The text with each maximal run of identifier characters that is a defined
\* name replaced by what expand returns for the name alone, and every other
\* character left as it is.
RECURSIVE OnlyNamesChanged(_, _)
OnlyNamesChanged(table, text) ==
    IF text = <<>> THEN <<>>
    ELSE LET n == NameRun(text) IN
         IF n = 0 THEN <<Head(text)>> \o OnlyNamesChanged(table, Tail(text))
         ELSE LET word == SubSeq(text, 1, n) IN
              (IF is_defined(table, word) THEN expand(table, {}, word).out ELSE word)
              \o OnlyNamesChanged(table, SubSeq(text, n + 1, Len(text)))

\* Whether a defined name is a whole run of identifier characters of text.
RECURSIVE HasDefinedName(_, _)
HasDefinedName(table, text) ==
    IF text = <<>> THEN FALSE
    ELSE LET n == NameRun(text) IN
         IF n = 0 THEN HasDefinedName(table, Tail(text))
         ELSE \/ is_defined(table, SubSeq(text, 1, n))
              \/ HasDefinedName(table, SubSeq(text, n + 1, Len(text)))

OnlyNamesChangedBy(e) ==
    /\ e.err = <<>> => e.out = OnlyNamesChanged(e.table, e.input)
    /\ ~HasDefinedName(e.table, e.input) => e.err = <<>> /\ e.out = e.input

\* C34: expand changes only the maximal runs of alphanumeric/underscore
\* characters that are equal to a defined macro name: every other character
\* is output unchanged and in order, a name inside a longer identifier is not
\* expanded, and a line with no defined name is returned unchanged.
C34_OnlyWholeNamesChanged ==
    expanded # <<>> => OnlyNamesChangedBy(expanded[1])

\* expand was called on `(A)+x` with A defined as 1 and returned `(1)+x`.
C34_Witness ==
    /\ expanded # <<>>
    /\ expanded[1].input = <<"(", "A", ")", "+", "x">>
    /\ macro_value(expanded[1].table, NameA) = <<<<"1">>>>
    /\ expanded[1].err = <<>>
    /\ expanded[1].out = <<"(", "1", ")", "+", "x">>

\* expand called again, on the result e.out, by a table whose expansion stack
\* is `stack`, returns e.out.
Idempotent(e, stack) ==
    e.err = <<>> =>
        \E again \in {expand(e.table, stack, e.out)} : again.err = <<>> /\ again.out = e.out

\* C37: macro expansion is idempotent: when expand succeeds on a line, expand
\* applied to its result, with the same table, returns the result unchanged.
C37_ExpandIdempotent ==
    expanded # <<>> => Idempotent(expanded[1], expansion_stack) /\ Idempotent(expanded[1], {})

\* expand replaced A through the chain A, B by a value that is no name, and
\* the result differs from the input.
C37_Witness ==
    /\ expanded # <<>>
    /\ expanded[1].input = <<"A", " ", "B">>
    /\ expanded[1].table = {<<NameA, <<"B">>>>, <<NameB, <<"1">>>>}
    /\ expanded[1].err = <<>>
    /\ expanded[1].out = <<"1", " ", "1">>

----------------------------------------------------------------------------
(* C35: every next_token call that returns anything other than the         *)
(* EndOfFile token, a token or an error, consumes at least one character   *)
(* of the input; so a caller that calls next_token until EndOfFile, with   *)
(* no advance of its own after an error, gets EndOfFile after at most as   *)
(* many other results as the source has characters.                        *)

NotEndOfFile == {i \in DOMAIN results : ~is_eof(results[i])}

C35_NextTokenConsumes ==
    /\ [](Cardinality(NotEndOfFile) <= Len(source))
    /\ [][(results' # results /\ ~is_eof(results'[Len(results')]))
            => Len(scanner'.chars) < Len(scanner.chars)]_vars

\* The caller got an error and then, with no advance of its own, a token and
\* EndOfFile.
C35_Witness ==
    /\ Len(results) = 3
    /\ ~results[1].ok
    /\ results[2].ok /\ ~is_eof(results[2])
    /\ is_eof(results[3])
    /\ scanner.chars = <<>>

----------------------------------------------------------------------------
(* process called on the same Preprocessor more than once, on sources that *)
(* define and remove a macro inside and outside conditional sections and   *)
(* use it in code and in a string literal                                  *)

ReuseMaxLines == 4

ReuseMaxCalls == 2

ReuseLines ==
    {KwDefine \o <<" ", "A", " ", "1">>, KwUndef \o <<" ", "A">>,
     KwIfdef \o <<" ", "A">>, KwIfdef \o <<" ", "B">>, KwEndif,
     <<"A", " ", "\"", "A", "\"">>}

ReuseInit ==
    /\ ScannerIdle
    /\ TableIdle
    /\ PositionIdle
    /\ \E ls \in SeqsUpTo(ReuseLines, ReuseMaxLines) : pp_source = Text(ls)
    /\ preserve = TRUE
    /\ conditionals = TRUE
    /\ pp = ProcessNew

\* process() is called again after it has returned.
ProcessAgain ==
    /\ pp.pc = "returned"
    /\ Len(pp.previous) + 1 < ReuseMaxCalls
    /\ pp' = [process_start(preserve, pp_source)
                 EXCEPT !.previous = Append(pp.previous, pp.ret[1])]
    /\ UNCHANGED <<positions, scan_vars, table_vars, pp_source, preserve, conditionals>>

ReuseNext == ProcessNext \/ ProcessAgain

ReuseSpec == ReuseInit /\ [][ReuseNext]_vars

\* The table that the `#define N V` and `#undef N` lines among ls make of
\* `table`, each line taken in order and none left out.
RECURSIVE DefinedBy(_, _)
DefinedBy(table, ls) ==
    IF ls = <<>> THEN table
    ELSE LET words == split_whitespace(Head(ls))
             without == {m \in table : m[1] # words[2]}
         IN  DefinedBy(IF Len(words) >= 2 /\ words[1] = KwDefine
                       THEN without \cup {<<words[2], join(SubSeq(words, 3, Len(words)))>>}
                       ELSE IF Len(words) >= 2 /\ words[1] = KwUndef
                       THEN without
                       ELSE table,
                       Tail(ls))

\* C36: directive lines are executed whatever the conditional activation is:
\* a `#define` or `#undef` inside an inactive section changes the macro
\* table, and the lines and `#ifdef` tests after it see the change: an
\* emitted line is expanded, and a `#ifdef N` decided, by the table that all
\* the definition lines before it have made.
C36_DirectivesRunWhenInactive ==
    [][(pp.pc = "lines" /\ pp.line_num <= Len(pp.lines) /\ pp.previous = <<>>) =>
        LET line == pp.lines[pp.line_num]
            table == DefinedBy({}, SubSeq(pp.lines, 1, pp.line_num - 1))
        IN  /\ macros = table
            /\ macros' = DefinedBy(table, <<line>>)
            /\ pp'.emitted # pp.emitted => Added(pp, pp') = Replaced(table, line)
            /\ (DirectiveWord(line) = KwIfdef /\ ~Failed(pp')) =>
                   pp'.condition_stack[Len(pp'.condition_stack)].active
                       = is_defined(table, split_whitespace(line)[2])]_vars

\* `#ifdef B`, `#define A 1`, `#endif` and a line that uses A: B is not
\* defined, and the line was emitted with 1 for A.
C36_Witness ==
    /\ SourceLines = <<KwIfdef \o <<" ", "B">>, KwDefine \o <<" ", "A", " ", "1">>,
                       KwEndif, <<"A", " ", "\"", "A", "\"">>>>
    /\ pp.previous = <<>>
    /\ pp.pc = "returned"
    /\ pp.ret[1].ok
    /\ pp.ret[1].text = <<"1", " ", "\"", "1", "\"", "\n">>

\* Whether text[i] lies inside a double-quoted string: after an odd number
\* of quotes, and no quote itself.
InsideString(text, i) ==
    /\ text[i] # "\""
    /\ Cardinality({k \in 1..(i - 1) : text[k] = "\""}) % 2 = 1

\* Whether a name of the table is a whole word of text inside a string.
DefinedNameInString(table, text) ==
    \E i \in DOMAIN text : \E j \in i..Len(text) :
        /\ \A k \in i..j : NameChar(text[k])
        /\ i = 1 \/ ~NameChar(text[i - 1])
        /\ j = Len(text) \/ ~NameChar(text[j + 1])
        /\ InsideString(text, i)
        /\ is_defined(table, SubSeq(text, i, j))

RECURSIVE ProcessToReturn(_, _, _, _)
RECURSIVE ProcessAfterLine(_, _, _)
ProcessToReturn(table, keep, support, p) ==
    IF p.pc = "returned" THEN [macros |-> table, pp |-> p]
    ELSE IF p.line_num > Len(p.lines)
         THEN [macros |-> table, pp |-> process_end(p)]
         ELSE ProcessAfterLine(keep, support, process_line(table, {}, keep, support, p))

ProcessAfterLine(keep, support, r) == ProcessToReturn(r.macros, keep, support, r.pp)

\* A whole process call on src by a Preprocessor whose table is `table`.
ProcessCall(table, keep, support, src) ==
    ProcessToReturn(table, keep, support, process_start(keep, src))

\* The lines the loop of the call p has executed, the one it failed at included.
Executed(p) ==
    SubSeq(p.lines, 1, IF p.line_num <= Len(p.lines) THEN p.line_num ELSE Len(p.lines))

\* n process calls in a row on src by a Preprocessor whose table is `table`:
\* [macros |-> the table after the last, rets |-> the Results returned].
RECURSIVE Calls(_, _, _, _, _)
RECURSIVE CallsAfter(_, _, _, _, _)
Calls(table, keep, support, src, n) ==
    IF n = 0 THEN [macros |-> table, rets |-> <<>>]
    ELSE CallsAfter(Calls(table, keep, support, src, n - 1), keep, support, src, n)

CallsAfter(before, keep, support, src, n) ==
    \* the n-th call, on the table the calls before it left
    LET call == ProcessCall(before.macros, keep, support, src)
    IN  [macros |-> call.macros, rets |-> Append(before.rets, call.pp.ret[1])]

\* The call that has just returned started from the table `before.macros`
\* that the calls before it left: its table is that one changed by the
\* definition lines it executed, and the caller has the Results that the
\* calls give one after the other.
TableKept(table, p, before, all) ==
    /\ table = DefinedBy(before.macros, Executed(p))
    /\ table = all.macros
    /\ Append(p.previous, p.ret[1]) = all.rets
    /\ p.previous = before.rets

\* C40: the definitions made or removed by `#define`/`#undef` lines stay in
\* the Preprocessor after process returns, also when it returns an error; a
\* later process call starts from that table with an empty condition stack
\* and returns what that table gives for the source.
C40_TableKeptBetweenCalls ==
    /\ (pp.pc = "lines" /\ pp.line_num = 1) => pp.condition_stack = <<>>
    /\ pp.pc = "returned" =>
           TableKept(macros, pp,
                     Calls({}, preserve, conditionals, pp_source, Len(pp.previous)),
                     Calls({}, preserve, conditionals, pp_source, Len(pp.previous) + 1))

\* `A "A"`, `#define A 1`, `#endif`: the first call failed at the `#endif`
\* and left A defined; the second call failed too, after it had expanded A.
C40_KeptAfterError ==
    /\ SourceLines = <<<<"A", " ", "\"", "A", "\"">>, KwDefine \o <<" ", "A", " ", "1">>,
                       KwEndif>>
    /\ pp.pc = "returned"
    /\ Len(pp.previous) = 1
    /\ ~pp.previous[1].ok
    /\ Failed(pp)
    /\ pp.result = <<"1", " ", "\"", "1", "\"", "\n">>
    /\ macros = {<<NameA, <<"1">>>>}

\* `A "A"`, `#define A 1`: both calls returned Ok, with different texts.
C40_Witness ==
    /\ SourceLines = <<<<"A", " ", "\"", "A", "\"">>, KwDefine \o <<" ", "A", " ", "1">>>>
    /\ pp.pc = "returned"
    /\ Len(pp.previous) = 1
    /\ pp.previous[1] = ProcessOk(<<"A", " ", "\"", "A", "\"", "\n">>)
    /\ pp.ret[1] = ProcessOk(<<"1", " ", "\"", "1", "\"", "\n">>)

----------------------------------------------------------------------------
(* C39: a conditional block may hold any number of `#else` lines: each one *)
(* flips the active flag of the top stack entry again, without error, so   *)
(* after a second `#else` the branch state is the one of the original      *)
(* `#ifdef`/`#ifndef` test.                                                *)

\* The open blocks after the directive lines ls, none of which fails: for
\* each block the outcome of its test and the number of its `#else` lines.
RECURSIVE OpenBlocks(_, _, _)
OpenBlocks(table, ls, blocks) ==
    IF ls = <<>> THEN blocks
    ELSE LET word == DirectiveWord(Head(ls))
             name == split_whitespace(Head(ls))[2]
             top == Len(blocks)
         IN  OpenBlocks(table, Tail(ls),
                 CASE word = KwIfdef ->
                        Append(blocks, [test |-> is_defined(table, name), elses |-> 0])
                   [] word = KwIfndef ->
                        Append(blocks, [test |-> ~is_defined(table, name), elses |-> 0])
                   [] word = KwElse /\ top > 0 ->
                        [blocks EXCEPT ![top].elses = @ + 1]
                   [] word = KwEndif /\ top > 0 -> SubSeq(blocks, 1, top - 1)
                   [] OTHER -> blocks)

\* The branch state of a block: that of its test after an even number of
\* `#else` lines, the opposite after an odd number.
BranchState(block) == IF block.elses % 2 = 0 THEN block.test ELSE ~block.test

ElseFlipsAgain(table, p) ==
    LET blocks == OpenBlocks(table, SubSeq(p.lines, 1, p.line_num - 1), <<>>) IN
    /\ Len(p.condition_stack) = Len(blocks)
    /\ \A i \in 1..Len(blocks) : p.condition_stack[i].active = BranchState(blocks[i])

C39_ElseFlipsEveryTime ==
    /\ [](pp.pc = "lines" => ElseFlipsAgain(macros, pp))
    /\ [][(/\ pp.pc = "lines"
           /\ pp.line_num <= Len(pp.lines)
           /\ DirectiveWord(pp.lines[pp.line_num]) = KwElse
           /\ pp.condition_stack # <<>>)
          => /\ ~Failed(pp')
             /\ pp'.line_num = pp.line_num + 1
             /\ pp'.result = pp.result]_vars

\* `#ifdef A`, `#else`, `#else`, `x`, `#endif` with A defined: the line x,
\* after the second `#else`, is in the output.
C39_Witness ==
    /\ SourceLines = <<KwIfdef \o <<" ", "A">>, KwElse, KwElse, <<"x">>, KwEndif>>
    /\ is_defined(macros, NameA)
    /\ pp.pc = "returned"
    /\ pp.ret[1].ok
    /\ pp.ret[1].text = <<"x", "\n">>

=============================================================================
